---- MODULE Spec2Model ----
(***************************************************************************)
(* Trajectory pre-checks of the gcode robot controller.                    *)
(*                                                                         *)
(* The module models check_traj (src/src/prechecks/prechecks.py) as a      *)
(* state machine with one action per pipeline stage, and the segment       *)
(* predicates of src/src/prechecks/trajectory_segment.py as operators.     *)
(* Stages whose implementation is not part of the source tree              *)
(* (trajectory generation, joint-limit filter, graph creation, path        *)
(* search, velocity check, collision checker) follow the design document.  *)
(* Further sections model the inverse kinematics' input validation, the    *)
(* move commands of src/src/printer_components/MelfaRobot.py, the          *)
(* check_trajectory command and src/src/AM_IR/circle_util.py, the         *)
(* administration of the robot (boot, shutdown, state changes, speed) and  *)
(* the serial client of src/src/clients/ComClient.py.                      *)
(***************************************************************************)
EXTENDS Integers, Sequences, FiniteSets, TLC

(***************************************************************************)
(* Bounds of the model.                                                    *)
(***************************************************************************)
\* Largest cartesian coordinate value of a trajectory point (0..MaxCoord).
MaxCoord == 2
\* Largest number of points of a segment handed to a segment predicate.
MaxSegPts == 3
\* Largest configuration label handed to has_common_configuration.
MaxLabel == 2

(***************************************************************************)
(* Python results: a normal return value or a raised exception.            *)
(***************************************************************************)
Return(v) == [exc |-> "none", val |-> v]

Raise(e) == [exc |-> e, val |-> FALSE]

\* Sequences over S of length lo..hi.
SeqsOf(S, lo, hi) == UNION {[1..n -> S] : n \in lo..hi}

(***************************************************************************)
(* trajectory_segment.py                                                   *)
(***************************************************************************)
\* all(lower <= i <= upper for i, lower, upper in zip(point, b[::2], b[1::2]))
\* zip stops at the shortest of the three lists.
PairCount(point, boundaries) ==
    LET lowers == (Len(boundaries) + 1) \div 2
        uppers == Len(boundaries) \div 2
        m == IF lowers < uppers THEN lowers ELSE uppers
    IN  IF Len(point) < m THEN Len(point) ELSE m

\* Faulty variant: the lengths of the lists are not examined.
is_point_within_boundaries_mut_no_length_check(point, boundaries) ==
    Return(\A k \in 1..PairCount(point, boundaries) :
               /\ boundaries[2 * k - 1] <= point[k]
               /\ point[k] <= boundaries[2 * k])

is_point_within_boundaries(point, boundaries) ==
    IF Len(boundaries) % 2 # 0 \/ Len(boundaries) > 2 * Len(point)
    THEN Raise("ValueError")
    ELSE Return(\A k \in 1..PairCount(point, boundaries) :
                    /\ boundaries[2 * k - 1] <= point[k]
                    /\ point[k] <= boundaries[2 * k])

\* Faulty variant: every point is examined, as for a circular segment.
LinearSegment_mut_all_points(trajectory_points, boundaries) ==
    IF \E i \in 1..Len(trajectory_points) :
           is_point_within_boundaries(trajectory_points[i], boundaries).exc # "none"
    THEN Raise("ValueError")
    ELSE Return(\A i \in 1..Len(trajectory_points) :
                    is_point_within_boundaries(trajectory_points[i], boundaries).val)

\* LinearSegment.is_within_cartesian_boundaries: trajectory_points[0] and
\* trajectory_points[-1] only.
LinearSegment_is_within_cartesian_boundaries(trajectory_points, boundaries) ==
    IF Len(trajectory_points) = 0
    THEN Raise("IndexError")
    ELSE LET start_inside == is_point_within_boundaries(trajectory_points[1], boundaries)
             end_inside == is_point_within_boundaries(
                               trajectory_points[Len(trajectory_points)], boundaries)
         IN  IF start_inside.exc # "none" THEN start_inside
             ELSE IF end_inside.exc # "none" THEN end_inside
             ELSE Return(start_inside.val /\ end_inside.val)

\* CircularSegment.is_within_cartesian_boundaries: all(...) over the points,
\* stopping at the first point outside.
CircularSegment_is_within_cartesian_boundaries(trajectory_points, boundaries) ==
    LET bad == {i \in 1..Len(trajectory_points) :
                    LET r == is_point_within_boundaries(trajectory_points[i], boundaries)
                    IN  r.exc # "none" \/ ~r.val}
        first == CHOOSE i \in bad : \A j \in bad : i <= j
    IN  IF bad = {} THEN Return(TRUE)
        ELSE is_point_within_boundaries(trajectory_points[first], boundaries)

\* Dispatch on the segment class.
is_within_cartesian_boundaries(segment, boundaries) ==
    IF segment.type = "linear"
    THEN LinearSegment_is_within_cartesian_boundaries(segment.trajectory_points, boundaries)
    ELSE CircularSegment_is_within_cartesian_boundaries(segment.trajectory_points, boundaries)

\* set(solution.keys())
Keys(solution) == DOMAIN solution

\* common_configurations after the first n waypoints of solutions[1:] were
\* intersected (n = 0: the keys of solutions[0]).
RECURSIVE CommonAfter(_, _)
CommonAfter(solutions, n) ==
    IF n = 0 THEN Keys(solutions[1])
    ELSE CommonAfter(solutions, n - 1) \cap Keys(solutions[n + 1])

\* JointTrajectorySegment.has_common_configuration: the emptiness test sits
\* inside the loop over solutions[1:], so it runs once per further waypoint.
has_common_configuration(solutions) ==
    IF Len(solutions) = 0
    THEN Raise("IndexError")
    ELSE Return(~\E n \in 1..(Len(solutions) - 1) : CommonAfter(solutions, n) = {})

(***************************************************************************)
(* Bounds and inputs of a validation run.                                  *)
(***************************************************************************)
\* Largest number of waypoints of a task trajectory, over all its segments.
MaxWaypoints == 2

\* Pose flags: the model keeps two of the eight configurations.
Flags == {0, 1}

\* Cartesian points: one coordinate.
Points == {<<x>> : x \in 0..MaxCoord}

\* Joint vectors (the model keeps two joints): two within the joint limits of
\* ConstraintsSet and one whose second joint is outside.
JointVectors == {<<0, 0>>, <<2, 0>>, <<0, 1>>}

\* Outcome of the inverse kinematics for one point and one pose flag: a joint
\* vector, or a failure (out of reach, domain error).
IKFail == [exc |-> "ValueError", val |-> <<>>]

IKOutcomes == {IKFail} \cup {Return(v) : v \in JointVectors}

SegmentsOfLen(k) ==
    [type : {"linear", "circular"}, trajectory_points : [1..k -> Points]]

\* Task trajectories with exactly n waypoints in all; every segment has a point.
RECURSIVE TaskTrajectoriesOfSize(_)
TaskTrajectoriesOfSize(n) ==
    IF n = 0 THEN {<<>>}
    ELSE UNION {{<<seg>> \o rest : seg \in SegmentsOfLen(k),
                                    rest \in TaskTrajectoriesOfSize(n - k)} : k \in 1..n}

TaskTrajectories == UNION {TaskTrajectoriesOfSize(n) : n \in 1..MaxWaypoints}

\* limits: Constraints(pos_cartesian, pos_joint, vel_joint), boundaries as
\* [lower, upper] pairs per axis.
ConstraintsSet ==
    [pos_cartesian : {<<1, 2>>},
     pos_joint : {<<0, 2, 0, 0>>},
     vel_joint : {<<1, 1>>}]

(***************************************************************************)
(* Stage functions of check_traj.                                          *)
(***************************************************************************)
\* The JointSolution of one point: inverse kinematics is attempted for every
\* flag of flags; the flags whose attempt succeeded are the labels, each with
\* its joint vector.
\* Faulty variant: the first failing flag ends the attempts for the point.
JointSolutionOf_mut_stop_at_failure(ik, point, flags) ==
    [f \in {f \in flags : \A g \in flags : g <= f => ik[<<point, g>>].exc = "none"}
        |-> ik[<<point, f>>].val]

JointSolutionOf(ik, point, flags) ==
    [f \in {f \in flags : ik[<<point, f>>].exc = "none"} |-> ik[<<point, f>>].val]

\* generate_joint_trajectory: one joint segment per cartesian segment, one
\* JointSolution per point.
generate_joint_trajectory(task_traj, ik, flags) ==
    [s \in 1..Len(task_traj) |->
        [i \in 1..Len(task_traj[s].trajectory_points) |->
            JointSolutionOf(ik, task_traj[s].trajectory_points[i], flags)]]

\* check_cartesian_limits: every segment must be within the boundaries.
check_cartesian_limits(task_traj, pos_cartesian) ==
    IF \E i \in 1..Len(task_traj) :
           LET r == is_within_cartesian_boundaries(task_traj[i], pos_cartesian)
           IN  r.exc # "none" \/ ~r.val
    THEN Raise("CartesianLimitViolation")
    ELSE Return(TRUE)

\* The entries of one JointSolution whose joint vector is within the limits.
FilterSolution(solution, pos_joint) ==
    LET keep == {l \in DOMAIN solution :
                    is_point_within_boundaries(solution[l], pos_joint).val}
    IN  [l \in keep |-> solution[l]]

FilterSegment(solutions, pos_joint) ==
    [i \in 1..Len(solutions) |-> FilterSolution(solutions[i], pos_joint)]

\* filter_joint_limits: drops the entries outside the joint limits; a waypoint
\* left without an entry is a violation.
filter_joint_limits(jt, pos_joint) ==
    LET filtered == [s \in 1..Len(jt) |-> FilterSegment(jt[s], pos_joint)]
    IN  IF \E s \in 1..Len(filtered) : \E i \in 1..Len(filtered[s]) :
               DOMAIN filtered[s][i] = {}
        THEN [exc |-> "UnreachableWaypoint", val |-> filtered]
        ELSE Return(filtered)

\* check_common_configurations: every segment needs a common configuration.
check_common_configurations(jt) ==
    IF \E s \in 1..Len(jt) : ~has_common_configuration(jt[s]).val
    THEN Raise("ConfigurationChangesError")
    ELSE Return(TRUE)

\* The waypoints of all segments in trajectory order.
RECURSIVE Flatten(_)
Flatten(jt) == IF jt = <<>> THEN <<>> ELSE Head(jt) \o Flatten(Tail(jt))

Abs(x) == IF x < 0 THEN -x ELSE x

\* Sum of the per-joint displacement between two joint vectors.
JointDistance(u, v) == Abs(u[1] - v[1]) + Abs(u[2] - v[2])

\* Cost added to an edge whose end nodes differ in configuration.
ConfigChangeCost == 1

\* Graph nodes are <<waypoint index, label>>; the start node has index 0 and
\* the stop node index N + 1, both with label -1.
StartNode == <<0, -1>>

StopNode(n) == <<n + 1, -1>>

LayerNodes(wps, i) ==
    IF i = 0 THEN {StartNode}
    ELSE IF i = Len(wps) + 1 THEN {StopNode(Len(wps))}
    ELSE {<<i, l>> : l \in DOMAIN wps[i]}

EdgeCost(wps, a, b) ==
    IF a[2] = -1 \/ b[2] = -1 THEN 0
    ELSE JointDistance(wps[a[1]][a[2]], wps[b[1]][b[2]])
         + (IF a[2] # b[2] THEN ConfigChangeCost ELSE 0)

\* Faulty variant: skip edges as well, from each layer to the layer after the next.
create_graph_mut_skip_edges(jt) ==
    LET wps == Flatten(jt)
        n == Len(wps)
        edges == UNION {LayerNodes(wps, p[1]) \X LayerNodes(wps, p[2]) :
                            p \in {p \in (0..n) \X (1..(n + 1)) :
                                       p[2] \in {p[1] + 1, p[1] + 2}}}
    IN  [nodes |-> UNION {LayerNodes(wps, i) : i \in 0..(n + 1)},
         edges |-> edges,
         weight |-> [e \in edges |-> EdgeCost(wps, e[1], e[2])],
         start_node |-> StartNode,
         stop_node |-> StopNode(n)]

\* create_graph: one layer of nodes per waypoint, every node of a layer joined
\* to every node of the next layer, the start node before the first layer and
\* the stop node after the last.
create_graph(jt) ==
    LET wps == Flatten(jt)
        n == Len(wps)
        edges == UNION {LayerNodes(wps, i) \X LayerNodes(wps, i + 1) : i \in 0..n}
    IN  [nodes |-> UNION {LayerNodes(wps, i) : i \in 0..(n + 1)},
         edges |-> edges,
         weight |-> [e \in edges |-> EdgeCost(wps, e[1], e[2])],
         start_node |-> StartNode,
         stop_node |-> StopNode(n)]

NoGraph ==
    [nodes |-> {}, edges |-> {}, weight |-> <<>>, start_node |-> StartNode,
     stop_node |-> StartNode]

\* All simple paths of the graph from node a to the stop node.
RECURSIVE PathsFrom(_, _, _)
PathsFrom(g, a, visited) ==
    IF a = g.stop_node THEN {<<a>>}
    ELSE UNION {{<<a>> \o p : p \in PathsFrom(g, e[2], visited \cup {a})} :
                    e \in {e \in g.edges : e[1] = a /\ e[2] \notin visited}}

StartStopPaths(g) == PathsFrom(g, g.start_node, {})

RECURSIVE PathCost(_, _)
PathCost(g, p) ==
    IF Len(p) < 2 THEN 0
    ELSE g.weight[<<p[1], p[2]>>] + PathCost(g, Tail(p))

\* Order of the nodes, and of two paths at their first different node: the
\* order in which the search meets paths of equal cost.
NodeBefore(a, b) == a[1] < b[1] \/ (a[1] = b[1] /\ a[2] < b[2])

PathBefore(p, q) ==
    \E k \in 1..Len(p) :
        /\ k <= Len(q)
        /\ NodeBefore(p[k], q[k])
        /\ \A j \in 1..(k - 1) : p[j] = q[j]

\* Faulty variant: the first remaining path in node order, whatever its cost.
ShortestCandidates_mut_any_cost(g, excluded) ==
    LET remaining == StartStopPaths(g) \ excluded
    IN  {p \in remaining : \A q \in remaining : q = p \/ PathBefore(p, q)}

\* The candidate of one iteration of the path search: the cheapest path not
\* excluded so far (none when every path is excluded).
ShortestCandidates(g, excluded) ==
    LET remaining == StartStopPaths(g) \ excluded
        cheapest == {p \in remaining :
                        \A q \in remaining : PathCost(g, p) <= PathCost(g, q)}
    IN  {p \in cheapest : \A q \in cheapest : q = p \/ PathBefore(p, q)}

\* The heaviest edges of a path.
WeakestEdges(g, p) ==
    LET es == {<<p[k], p[k + 1]>> : k \in 1..(Len(p) - 1)}
    IN  {e \in es : \A f \in es : g.weight[f] <= g.weight[e]}

\* Faulty variant: a rejected path is excluded by removing its weakest edge, which
\* excludes every path through that edge.
ExcludePath_mut_weakest_edge(g, excluded, p) ==
    LET e == CHOOSE e \in WeakestEdges(g, p) : TRUE
    IN  excluded \cup {q \in StartStopPaths(g) :
                          \E k \in 1..(Len(q) - 1) : <<q[k], q[k + 1]>> = e}

\* Faulty variant: a rejected path is not excluded.
ExcludePath_mut_forget(g, excluded, p) == excluded

\* The paths excluded from the search after the oracle rejected path p.
ExcludePath(g, excluded, p) == excluded \cup {p}

\* The joint vectors of a path's waypoint nodes, in path order.
PathJoints(jt, p) ==
    LET wps == Flatten(jt)
    IN  [k \in 1..(Len(p) - 2) |-> wps[p[k + 1][1]][p[k + 1][2]]]

\* Time step between two consecutive waypoints.
TimeStep == 1

\* Faulty variant: the signed velocity is compared with the limit.
check_joint_velocities_mut_signed(jt, path, vel_joint) ==
    LET q == PathJoints(jt, path)
    IN  IF \E k \in 1..(Len(q) - 1) : \E j \in 1..2 :
               q[k + 1][j] - q[k][j] > vel_joint[j] * TimeStep
        THEN Raise("VelocityLimitViolation")
        ELSE Return(TRUE)

\* check_joint_velocities: per joint, the magnitude of the displacement per
\* time step between consecutive vectors of the chosen path must not exceed
\* the limit (|d| / TimeStep > limit, as |d| > limit * TimeStep).
check_joint_velocities(jt, path, vel_joint) ==
    LET q == PathJoints(jt, path)
    IN  IF \E k \in 1..(Len(q) - 1) : \E j \in 1..2 :
               Abs(q[k + 1][j] - q[k][j]) > vel_joint[j] * TimeStep
        THEN Raise("VelocityLimitViolation")
        ELSE Return(TRUE)

(***************************************************************************)
(* State of one validation run (check_traj) and of a single call of a      *)
(* segment predicate.                                                      *)
(***************************************************************************)
VARIABLES
    pc,                \* the stage check_traj runs next, "returned" or "raised"
    exc,               \* the exception check_traj ended with, or "none"
    stages,            \* the stages started so far, in order
    limits,            \* the Constraints argument
    task_trajectory,   \* list of cartesian segments
    joint_traj,        \* list of joint segments (lists of JointSolution)
    graph,             \* result of create_graph
    collider,          \* "unacquired", "open" or "closed"
    collisions,        \* verdict for the home position: "unset", "free", "colliding"
    home_calls,        \* oracle calls with the home joint vector
    path_calls,        \* oracle calls with a candidate path
    last_call,         \* the last oracle call and its verdict
    rejected,          \* candidate paths the oracle rejected
    pt_configurations, \* the path get_best_valid_path returned
    call,              \* segment predicate under test and its arguments
    ret,               \* its result
    robot,             \* the MelfaRobot object: its operation flags
    tcp,               \* the robot's TCP client: what the last operation did with it
    client,            \* the ComClient object and its serial port
    rx                 \* the running call of ComClient._receive and the bytes it handled

vars == <<pc, exc, stages, limits, task_trajectory, joint_traj, graph, collider,
          collisions, home_calls, path_calls, last_call, rejected,
          pt_configurations, call, ret, robot, tcp, client, rx>>

runVars == <<pc, exc, stages, limits, task_trajectory, joint_traj, graph, collider,
             collisions, home_calls, path_calls, last_call, rejected,
             pt_configurations>>

callVars == <<call, ret>>

deviceVars == <<robot, tcp, client, rx>>

oracleVars == <<collider, collisions, home_calls, path_calls, last_call, rejected,
                pt_configurations>>

NoCall == [kind |-> "none", arg |-> <<>>, colliding |-> FALSE]

\* The stages of check_traj in program order.
StageOrder ==
    <<"forward_kinematics", "generate_task_trajectory", "check_cartesian_limits",
      "generate_joint_trajectory", "filter_joint_limits",
      "check_common_configurations", "create_graph", "create_collision_objects",
      "MatlabCollisionChecker", "check_collisions", "get_best_valid_path",
      "check_joint_velocities">>

RunIdle ==
    /\ pc = "forward_kinematics"
    /\ exc = "none"
    /\ stages = <<>>
    /\ task_trajectory = <<>>
    /\ joint_traj = <<>>
    /\ graph = NoGraph
    /\ collider = "unacquired"
    /\ collisions = "unset"
    /\ home_calls = 0
    /\ path_calls = 0
    /\ last_call = NoCall
    /\ rejected = {}
    /\ pt_configurations = <<>>

CallIdle ==
    /\ call = [op |-> "none", args |-> <<>>]
    /\ ret = Return(FALSE)

\* Components and axes of a coordinate: a component is <<>> (None) or <<v>>.
Unset == <<>>

AllAxes == {"X", "Y", "A"}

TranslationAxes == {"X", "Y"}

\* self.zero = Coordinate([0, 0, 0, None, None, None], "XYZABC")
Zero == [a \in AllAxes |-> IF a \in TranslationAxes THEN <<0>> ELSE Unset]

\* No robot and no serial client constructed yet.
DeviceIdle ==
    /\ robot = [constructed |-> FALSE, safe_return |-> FALSE, servo |-> FALSE,
                com_ctrl |-> FALSE, work_coordinate_active |-> FALSE,
                go_safe_pos_calls |-> 0, zero |-> Zero]
    /\ tcp = [sent |-> <<>>, close_calls |-> 0, wire |-> <<>>]
    /\ client = [constructed |-> FALSE, port |-> "None", ids |-> <<>>,
                 ser_port |-> "None", is_open |-> FALSE, connected |-> FALSE,
                 resolved |-> FALSE, buffer |-> <<>>]
    /\ rx = [active |-> FALSE, iterated |-> FALSE, idle |-> 0, initial_bits |-> 0,
             erred |-> FALSE, cause |-> "none", response |-> <<>>, buffered |-> <<>>,
             read |-> <<>>, delivered |-> <<>>]

\* State at the call of check_traj.
Init ==
    /\ RunIdle
    /\ limits \in ConstraintsSet
    /\ CallIdle
    /\ DeviceIdle

\* A stage starts: it is logged, and ends either normally (control moves to the
\* next statement) or by raising, which ends check_traj.
Start(stage) == pc = stage /\ stages' = Append(stages, stage)

Continue(next) == pc' = next /\ exc' = "none"

Abort(e) == pc' = "raised" /\ exc' = e

\* line 61: start_position = forward_kinematics(config, home); fails when the
\* home vector does not match the joint list.
Stage_forward_kinematics ==
    /\ Start("forward_kinematics")
    /\ \E dims_match \in BOOLEAN :
           IF dims_match THEN Continue("generate_task_trajectory")
           ELSE Abort("DimensionMismatch")
    /\ UNCHANGED <<limits, task_trajectory, joint_traj, graph>>
    /\ UNCHANGED oracleVars
    /\ UNCHANGED <<callVars, deviceVars>>

\* line 64: task_trajectory = generate_task_trajectory(...)
Stage_generate_task_trajectory ==
    /\ Start("generate_task_trajectory")
    /\ \/ /\ task_trajectory' \in TaskTrajectories
          /\ Continue("check_cartesian_limits")
       \/ /\ UNCHANGED task_trajectory
          /\ Abort("UnsupportedCommand")
    /\ UNCHANGED <<limits, joint_traj, graph>>
    /\ UNCHANGED oracleVars
    /\ UNCHANGED <<callVars, deviceVars>>

\* Faulty variant: the outcome of the cartesian check is ignored.
Stage_check_cartesian_limits_mut_ignored ==
    /\ Start("check_cartesian_limits")
    /\ Continue("generate_joint_trajectory")
    /\ UNCHANGED <<limits, task_trajectory, joint_traj, graph>>
    /\ UNCHANGED oracleVars
    /\ UNCHANGED <<callVars, deviceVars>>

\* line 65: check_cartesian_limits(task_trajectory, limits.pos_cartesian)
Stage_check_cartesian_limits ==
    /\ Start("check_cartesian_limits")
    /\ LET r == check_cartesian_limits(task_trajectory, limits.pos_cartesian)
       IN  IF r.exc = "none" THEN Continue("generate_joint_trajectory")
           ELSE Abort(r.exc)
    /\ UNCHANGED <<limits, task_trajectory, joint_traj, graph>>
    /\ UNCHANGED oracleVars
    /\ UNCHANGED <<callVars, deviceVars>>

\* The points of a task trajectory.
UsedPoints(task_traj) ==
    UNION {{task_traj[s].trajectory_points[i] :
               i \in 1..Len(task_traj[s].trajectory_points)} : s \in 1..Len(task_traj)}

\* Faulty variant: the joint-limit filter is left out.
Stage_generate_joint_trajectory_mut_no_filter ==
    /\ Start("generate_joint_trajectory")
    /\ \E ik \in [UsedPoints(task_trajectory) \X Flags -> IKOutcomes] :
           joint_traj' = generate_joint_trajectory(task_trajectory, ik, Flags)
    /\ Continue("check_common_configurations")
    /\ UNCHANGED <<limits, task_trajectory, graph>>
    /\ UNCHANGED oracleVars
    /\ UNCHANGED <<callVars, deviceVars>>

\* line 71: joint_traj = generate_joint_trajectory(task_trajectory, config);
\* the inverse kinematics is a function of the point and the pose flag.
Stage_generate_joint_trajectory ==
    /\ Start("generate_joint_trajectory")
    /\ \E ik \in [UsedPoints(task_trajectory) \X Flags -> IKOutcomes] :
           joint_traj' = generate_joint_trajectory(task_trajectory, ik, Flags)
    /\ Continue("filter_joint_limits")
    /\ UNCHANGED <<limits, task_trajectory, graph>>
    /\ UNCHANGED oracleVars
    /\ UNCHANGED <<callVars, deviceVars>>

\* Faulty variant: a violation reported by the filter does not end the run.
Stage_filter_joint_limits_mut_continue ==
    /\ Start("filter_joint_limits")
    /\ joint_traj' = filter_joint_limits(joint_traj, limits.pos_joint).val
    /\ Continue("check_common_configurations")
    /\ UNCHANGED <<limits, task_trajectory, graph>>
    /\ UNCHANGED oracleVars
    /\ UNCHANGED <<callVars, deviceVars>>

\* line 72: filter_joint_limits(joint_traj, limits.pos_joint), in place
Stage_filter_joint_limits ==
    /\ Start("filter_joint_limits")
    /\ LET r == filter_joint_limits(joint_traj, limits.pos_joint)
       IN  /\ joint_traj' = r.val
           /\ IF r.exc = "none" THEN Continue("check_common_configurations")
              ELSE Abort(r.exc)
    /\ UNCHANGED <<limits, task_trajectory, graph>>
    /\ UNCHANGED oracleVars
    /\ UNCHANGED <<callVars, deviceVars>>

\* line 75: check_common_configurations(joint_traj)
Stage_check_common_configurations ==
    /\ Start("check_common_configurations")
    /\ LET r == check_common_configurations(joint_traj)
       IN  IF r.exc = "none" THEN Continue("create_graph") ELSE Abort(r.exc)
    /\ UNCHANGED <<limits, task_trajectory, joint_traj, graph>>
    /\ UNCHANGED oracleVars
    /\ UNCHANGED <<callVars, deviceVars>>

\* line 81: graph, start_node, stop_node = create_graph(joint_traj, ...)
Stage_create_graph ==
    /\ Start("create_graph")
    /\ graph' = create_graph(joint_traj)
    /\ Continue("create_collision_objects")
    /\ UNCHANGED <<limits, task_trajectory, joint_traj>>
    /\ UNCHANGED oracleVars
    /\ UNCHANGED <<callVars, deviceVars>>

\* line 84: collision_objects = create_collision_objects(task_trajectory, extr)
Stage_create_collision_objects ==
    /\ Start("create_collision_objects")
    /\ Continue("MatlabCollisionChecker")
    /\ UNCHANGED <<limits, task_trajectory, joint_traj, graph>>
    /\ UNCHANGED oracleVars
    /\ UNCHANGED <<callVars, deviceVars>>

\* line 87: with MatlabCollisionChecker() as collider
Stage_MatlabCollisionChecker ==
    /\ Start("MatlabCollisionChecker")
    /\ collider' = "open"
    /\ Continue("check_collisions")
    /\ UNCHANGED <<limits, task_trajectory, joint_traj, graph>>
    /\ UNCHANGED <<collisions, home_calls, path_calls, last_call, rejected,
                   pt_configurations>>
    /\ UNCHANGED <<callVars, deviceVars>>

\* Faulty variant: no with block, the collider stays open when the home position
\* collides.
Stage_check_collisions_mut_no_release ==
    /\ Start("check_collisions")
    /\ \E colliding \in BOOLEAN :
           /\ home_calls' = home_calls + 1
           /\ last_call' = [kind |-> "home", arg |-> <<>>, colliding |-> colliding]
           /\ collider' = collider
           /\ IF colliding
              THEN collisions' = "colliding" /\ Abort("CollisionViolation")
              ELSE collisions' = "free" /\ Continue("get_best_valid_path")
    /\ UNCHANGED <<limits, task_trajectory, joint_traj, graph>>
    /\ UNCHANGED <<path_calls, rejected, pt_configurations>>
    /\ UNCHANGED <<callVars, deviceVars>>

\* Faulty variant: the verdict for the home position is not tested.
Stage_check_collisions_mut_untested ==
    /\ Start("check_collisions")
    /\ \E colliding \in BOOLEAN :
           /\ home_calls' = home_calls + 1
           /\ last_call' = [kind |-> "home", arg |-> <<>>, colliding |-> colliding]
           /\ collisions' = IF colliding THEN "colliding" ELSE "free"
           /\ collider' = collider
           /\ Continue("get_best_valid_path")
    /\ UNCHANGED <<limits, task_trajectory, joint_traj, graph>>
    /\ UNCHANGED <<path_calls, rejected, pt_configurations>>
    /\ UNCHANGED <<callVars, deviceVars>>

\* lines 88-91: collisions = collider.check_collisions(home, path=urdf);
\* a collision raises CollisionViolation, and leaving the with block by the
\* exception closes the collider.
Stage_check_collisions ==
    /\ Start("check_collisions")
    /\ \E colliding \in BOOLEAN :
           /\ home_calls' = home_calls + 1
           /\ last_call' = [kind |-> "home", arg |-> <<>>, colliding |-> colliding]
           /\ IF colliding
              THEN /\ collisions' = "colliding"
                   /\ collider' = "closed"
                   /\ Abort("CollisionViolation")
              ELSE /\ collisions' = "free"
                   /\ collider' = collider
                   /\ Continue("get_best_valid_path")
    /\ UNCHANGED <<limits, task_trajectory, joint_traj, graph>>
    /\ UNCHANGED <<path_calls, rejected, pt_configurations>>
    /\ UNCHANGED <<callVars, deviceVars>>

\* line 97: get_best_valid_path(collider, graph, joint_traj, start_node, stop_node)
\* is called.
Stage_get_best_valid_path ==
    /\ Start("get_best_valid_path")
    /\ Continue("path_search")
    /\ UNCHANGED <<limits, task_trajectory, joint_traj, graph>>
    /\ UNCHANGED oracleVars
    /\ UNCHANGED <<callVars, deviceVars>>

\* One iteration of the search: the cheapest path not yet excluded is handed to
\* the oracle; a rejected path is excluded, an accepted one is returned and
\* the with block is left.
PathSearch_submit ==
    /\ pc = "path_search"
    /\ \E p \in ShortestCandidates(graph, rejected) : \E colliding \in BOOLEAN :
           /\ path_calls' = path_calls + 1
           /\ last_call' = [kind |-> "path", arg |-> p, colliding |-> colliding]
           /\ IF colliding
              THEN /\ rejected' = ExcludePath(graph, rejected, p)
                   /\ UNCHANGED <<pc, exc, collider, pt_configurations>>
              ELSE /\ pt_configurations' = p
                   /\ collider' = "closed"
                   /\ Continue("check_joint_velocities")
                   /\ UNCHANGED rejected
    /\ UNCHANGED <<stages, limits, task_trajectory, joint_traj, graph>>
    /\ UNCHANGED <<collisions, home_calls>>
    /\ UNCHANGED <<callVars, deviceVars>>

\* The search space is exhausted: the search fails, and leaving the with block
\* by the exception closes the collider.
PathSearch_exhausted ==
    /\ pc = "path_search"
    /\ ShortestCandidates(graph, rejected) = {}
    /\ collider' = "closed"
    /\ Abort("NoValidPathFound")
    /\ UNCHANGED <<stages, limits, task_trajectory, joint_traj, graph>>
    /\ UNCHANGED <<collisions, home_calls, path_calls, last_call, rejected,
                   pt_configurations>>
    /\ UNCHANGED <<callVars, deviceVars>>

\* line 100: check_joint_velocities(joint_traj, pt_configurations, limits.vel_joint)
Stage_check_joint_velocities ==
    /\ Start("check_joint_velocities")
    /\ LET r == check_joint_velocities(joint_traj, pt_configurations, limits.vel_joint)
       IN  IF r.exc = "none" THEN Continue("returned") ELSE Abort(r.exc)
    /\ UNCHANGED <<limits, task_trajectory, joint_traj, graph>>
    /\ UNCHANGED oracleVars
    /\ UNCHANGED <<callVars, deviceVars>>

Next ==
    \/ Stage_forward_kinematics
    \/ Stage_generate_task_trajectory
    \/ Stage_check_cartesian_limits
    \/ Stage_generate_joint_trajectory
    \/ Stage_filter_joint_limits
    \/ Stage_check_common_configurations
    \/ Stage_create_graph
    \/ Stage_create_collision_objects
    \/ Stage_MatlabCollisionChecker
    \/ Stage_check_collisions
    \/ Stage_get_best_valid_path
    \/ PathSearch_submit
    \/ PathSearch_exhausted
    \/ Stage_check_joint_velocities

Spec == Init /\ [][Next]_vars

(***************************************************************************)
(* Single calls of the segment predicates, with arguments of any shape the *)
(* segment classes accept.                                                 *)
(***************************************************************************)
\* Boundary lists of a one-coordinate point: [lower, upper].
BoundaryLists == {<<lo, hi>> : lo \in 0..MaxCoord, hi \in 0..MaxCoord}

CartesianSegments == UNION {SegmentsOfLen(k) : k \in 1..MaxSegPts}

\* JointSolutions over the labels 0..MaxLabel; the predicate reads the keys only.
LabelledSolutions == UNION {[S -> {<<0, 0>>}] : S \in SUBSET (0..MaxLabel)}

\* segment.is_within_cartesian_boundaries(boundaries)
Call_is_within_cartesian_boundaries ==
    /\ call.op = "none"
    /\ \E segment \in CartesianSegments : \E boundaries \in BoundaryLists :
           /\ call' = [op |-> "is_within_cartesian_boundaries",
                       args |-> <<segment, boundaries>>]
           /\ ret' = is_within_cartesian_boundaries(segment, boundaries)
    /\ UNCHANGED <<runVars, deviceVars>>

\* JointTrajectorySegment(solutions).has_common_configuration()
Call_has_common_configuration ==
    /\ call.op = "none"
    /\ \E solutions \in SeqsOf(LabelledSolutions, 1, MaxSegPts) :
           /\ call' = [op |-> "has_common_configuration", args |-> <<solutions>>]
           /\ ret' = has_common_configuration(solutions)
    /\ UNCHANGED <<runVars, deviceVars>>

SpecCartesian == Init /\ [][Call_is_within_cartesian_boundaries]_vars

SpecCommon == Init /\ [][Call_has_common_configuration]_vars

(***************************************************************************)
(* Properties.                                                             *)
(***************************************************************************)
Range(f) == {f[k] : k \in DOMAIN f}

\* A point lies within the boundaries: lower <= coordinate <= upper on every axis.
WithinBounds(point, boundaries) ==
    \A k \in 1..Len(point) :
        boundaries[2 * k - 1] <= point[k] /\ point[k] <= boundaries[2 * k]

\* The labels present at every waypoint of a joint segment.
CommonLabels(solutions) ==
    {l \in DOMAIN solutions[1] : \A i \in 1..Len(solutions) : l \in DOMAIN solutions[i]}

\* C9: has_common_configuration returns true if and only if the intersection of
\* the label sets of all waypoints of the segment is non-empty.
C9_CommonIffIntersection ==
    call.op = "has_common_configuration" =>
        /\ ret.exc = "none"
        /\ ret.val <=> (CommonLabels(call.args[1]) # {})

\* C10: a linear segment is in bounds iff its first and last point are within
\* the bounds, whatever its intermediate points; a circular segment is in
\* bounds iff every point is within the bounds.
C10_SegmentBounds ==
    call.op = "is_within_cartesian_boundaries" =>
        LET segment == call.args[1]
            points == segment.trajectory_points
            boundaries == call.args[2]
        IN  /\ ret.exc = "none"
            /\ segment.type = "linear" =>
                   (ret.val <=> /\ WithinBounds(points[1], boundaries)
                                /\ WithinBounds(points[Len(points)], boundaries))
            /\ segment.type = "circular" =>
                   (ret.val <=> \A i \in 1..Len(points) :
                                    WithinBounds(points[i], boundaries))

\* C10 witness: a linear segment accepted although an intermediate point is
\* outside the bounds.
C10_Witness ==
    /\ call.op = "is_within_cartesian_boundaries"
    /\ call.args[1].type = "linear"
    /\ ret.val
    /\ \E i \in 1..Len(call.args[1].trajectory_points) :
           ~WithinBounds(call.args[1].trajectory_points[i], call.args[2])

\* The stages named by the data-flow description, in its order.
ClaimedOrder ==
    <<"generate_task_trajectory", "check_cartesian_limits",
      "generate_joint_trajectory", "filter_joint_limits",
      "check_common_configurations", "create_graph", "check_collisions",
      "get_best_valid_path", "check_joint_velocities">>

IsClaimedStage(x) == x \in Range(ClaimedOrder)

IsPrefix(s, t) == Len(s) <= Len(t) /\ \A k \in 1..Len(s) : s[k] = t[k]

Started(stage) == stage \in Range(stages)

\* The oracle accepted the path the search returned.
PathAccepted ==
    /\ pt_configurations \in StartStopPaths(graph)
    /\ last_call = [kind |-> "path", arg |-> pt_configurations, colliding |-> FALSE]

ViolationsOf(stage) ==
    CASE stage = "forward_kinematics" -> {"DimensionMismatch"}
      [] stage = "generate_task_trajectory" -> {"UnsupportedCommand"}
      [] stage = "check_cartesian_limits" -> {"CartesianLimitViolation"}
      [] stage = "filter_joint_limits" -> {"UnreachableWaypoint"}
      [] stage = "check_common_configurations" -> {"ConfigurationChangesError"}
      [] stage = "check_collisions" -> {"CollisionViolation"}
      [] stage = "path_search" -> {"NoValidPathFound"}
      [] stage = "check_joint_velocities" -> {"VelocityLimitViolation"}
      [] OTHER -> {}

\* Every check of the pipeline passes on the data of the run.
AllChecksPassed ==
    /\ check_cartesian_limits(task_trajectory, limits.pos_cartesian).exc = "none"
    /\ filter_joint_limits(joint_traj, limits.pos_joint).exc = "none"
    /\ check_common_configurations(joint_traj).exc = "none"
    /\ collisions = "free"
    /\ PathAccepted
    /\ check_joint_velocities(joint_traj, pt_configurations, limits.vel_joint).exc = "none"

\* C2: a run ends either by returning normally, after every stage ran and
\* passed, or with the violation raised by the stage that failed; once a stage
\* has raised or the run has returned no further step is taken, and no stage
\* starts a second time.
C2_EndsOnce ==
    [][/\ pc \notin {"returned", "raised"}
       /\ exc = "none"
       /\ (pc' = "raised") <=> (exc' # "none")
       /\ exc' # "none" => exc' \in ViolationsOf(pc)
       /\ pc' = "returned" => stages' = StageOrder /\ AllChecksPassed'
       /\ stages' # stages =>
              /\ stages' = Append(stages, pc)
              /\ ~Started(pc)]_vars

\* C2 witness: a run ended by the configuration check; the graph was never built.
C2_Witness ==
    /\ pc = "raised"
    /\ exc = "ConfigurationChangesError"
    /\ ~Started("create_graph")

\* C3: the oracle is called only while the collider is open; the collider is
\* open only between its acquisition and the end of the path search, and it
\* is closed on every way out of that scope: path found, home position in
\* collision, path search failed. A closed collider is never reopened.
C3_ColliderScope ==
    [][/\ (home_calls' # home_calls \/ path_calls' # path_calls) => collider = "open"
       /\ collider' = "open" =>
              pc' \in {"check_collisions", "get_best_valid_path", "path_search"}
       /\ (collider = "open" /\ pc' \in {"raised", "returned", "check_joint_velocities"})
              => collider' = "closed"
       /\ collider = "closed" => collider' = "closed"]_vars

\* C3 witness: the path search failed after at least one oracle call and the
\* collider is closed.
C3_Witness ==
    /\ exc = "NoValidPathFound"
    /\ path_calls > 0
    /\ collider = "closed"

\* C4: the oracle is called with the home vector at most once, and exactly
\* once before any candidate path is submitted; if that call reports a
\* collision the run ends with CollisionViolation and no path is submitted.
C4_HomeFirst ==
    /\ home_calls <= 1
    /\ (Started("get_best_valid_path") \/ path_calls > 0) =>
           home_calls = 1 /\ collisions = "free"
    /\ (home_calls = 1) <=> (collisions # "unset")
    /\ collisions = "colliding" =>
           /\ pc = "raised"
           /\ exc = "CollisionViolation"
           /\ path_calls = 0
           /\ ~Started("get_best_valid_path")

\* C4 witness: the home position collides.
C4_Witness == collisions = "colliding" /\ exc = "CollisionViolation"

CheaperPaths(g, p) == {q \in StartStopPaths(g) : PathCost(g, q) < PathCost(g, p)}

C7_LayeredGraph ==
    Started("create_graph") /\ pc # "create_graph" =>
        LET wps == Flatten(joint_traj)
            n == Len(wps)
            layer(i) == {a \in graph.nodes : a[1] = i}
        IN  /\ \A e \in graph.edges : e[2][1] = e[1][1] + 1
            /\ \A i \in 1..n : layer(i) = {<<i, l>> : l \in DOMAIN wps[i]}
            /\ layer(0) = {graph.start_node}
            /\ layer(n + 1) = {graph.stop_node}
            /\ \A i \in 0..n : \A a \in layer(i) : \A b \in layer(i + 1) :
                   <<a, b>> \in graph.edges
            /\ \A p \in StartStopPaths(graph) :
                   /\ Len(p) = n + 2
                   /\ \A k \in 1..Len(p) : p[k][1] = k - 1

\* C7 witness: a graph of two waypoints with two configurations each.
C7_Witness ==
    /\ Started("create_graph")
    /\ Cardinality(graph.nodes) = 6
    /\ Cardinality(StartStopPaths(graph)) = 4

\* Joint vector v is within the joint limits [min, max] of every joint.
WithinJointLimits(v, pos_joint) ==
    \A j \in 1..Len(v) : pos_joint[2 * j - 1] <= v[j] /\ v[j] <= pos_joint[2 * j]

\* C8: when filter_joint_limits returns normally every remaining entry is
\* within the joint limits, no entry within the limits was removed and every
\* waypoint has an entry; a waypoint without an entry within the limits ends
\* the run with UnreachableWaypoint, the graph not built and the collider not
\* acquired.
C8_FilterJointLimits ==
    [][pc = "filter_joint_limits" =>
          LET kept(s, i) == {l \in DOMAIN joint_traj[s][i] :
                                WithinJointLimits(joint_traj[s][i][l], limits.pos_joint)}
              unreachable == \E s \in 1..Len(joint_traj) :
                                 \E i \in 1..Len(joint_traj[s]) : kept(s, i) = {}
          IN  IF unreachable
              THEN /\ pc' = "raised"
                   /\ exc' = "UnreachableWaypoint"
                   /\ graph' = NoGraph
                   /\ collider' = "unacquired"
              ELSE /\ pc' = "check_common_configurations"
                   /\ exc' = "none"
                   /\ Len(joint_traj') = Len(joint_traj)
                   /\ \A s \in 1..Len(joint_traj) :
                          /\ Len(joint_traj'[s]) = Len(joint_traj[s])
                          /\ \A i \in 1..Len(joint_traj[s]) :
                                 /\ DOMAIN joint_traj'[s][i] = kept(s, i)
                                 /\ \A l \in kept(s, i) :
                                        joint_traj'[s][i][l] = joint_traj[s][i][l]]_vars

\* C8 witness: the filter emptied a waypoint; no graph, no collider.
C8_Witness ==
    /\ exc = "UnreachableWaypoint"
    /\ \E s \in 1..Len(joint_traj) : \E i \in 1..Len(joint_traj[s]) :
           DOMAIN joint_traj[s][i] = {}
    /\ \E s \in 1..Len(joint_traj) : \E i \in 1..Len(joint_traj[s]) :
           DOMAIN joint_traj[s][i] # {}
    /\ graph = NoGraph
    /\ collider = "unacquired"

(***************************************************************************)
(* Single calls of generate_joint_trajectory with all eight pose flags.    *)
(***************************************************************************)
\* The pose flags of the inverse kinematics.
PoseFlags == 0..7

\* Points of the generated segment.
GenPoints == {<<0>>, <<1>>}

\* Outcome of one inverse-kinematics attempt: failure or a joint vector.
GenOutcomes == {IKFail, Return(<<0, 0>>)}

\* generate_joint_trajectory(task_trajectory, config) for a two-point segment;
\* ik is the outcome of the inverse kinematics per point and flag.
Call_generate_joint_trajectory ==
    /\ call.op = "none"
    /\ \E p1 \in GenPoints : \E p2 \in GenPoints :
           LET task_traj == <<[type |-> "linear", trajectory_points |-> <<p1, p2>>]>>
           IN  \E ik \in [{p1, p2} \X PoseFlags -> GenOutcomes] :
                   /\ call' = [op |-> "generate_joint_trajectory",
                               args |-> <<task_traj, ik>>]
                   /\ ret' = Return(generate_joint_trajectory(task_traj, ik, PoseFlags))
    /\ UNCHANGED <<runVars, deviceVars>>

SpecGenerate == Init /\ [][Call_generate_joint_trajectory]_vars

\* C11: generate_joint_trajectory attempts all 8 pose flags at every point;
\* the labels of a point's JointSolution are exactly the flags whose inverse
\* kinematics succeeded, each with the vector it returned. A failing flag
\* removes that label only: the generation returns normally, with one
\* JointSolution per point.
C11_LabelsAreSucceededFlags ==
    call.op = "generate_joint_trajectory" =>
        LET task_traj == call.args[1]
            ik == call.args[2]
        IN  /\ ret.exc = "none"
            /\ Len(ret.val) = Len(task_traj)
            /\ \A s \in 1..Len(task_traj) :
                   LET points == task_traj[s].trajectory_points
                   IN  /\ Len(ret.val[s]) = Len(points)
                       /\ \A i \in 1..Len(points) :
                              /\ DOMAIN ret.val[s][i] =
                                     {f \in 0..7 : ik[<<points[i], f>>].exc = "none"}
                              /\ \A f \in DOMAIN ret.val[s][i] :
                                     ret.val[s][i][f] = ik[<<points[i], f>>].val

\* C11 witness: flag 3 fails at the first point only; the first point keeps
\* the seven other labels and the second point all eight.
C11_Witness ==
    /\ call.op = "generate_joint_trajectory"
    /\ DOMAIN ret.val[1][1] = (0..7) \ {3}
    /\ DOMAIN ret.val[1][2] = 0..7

\* C12: check_joint_velocities raises VelocityLimitViolation if and only if
\* for some pair of consecutive joint vectors of the chosen path and some
\* joint the magnitude of (angle difference / time step) exceeds the joint's
\* velocity limit; otherwise it returns normally.
C12_VelocityLimit ==
    [][pc = "check_joint_velocities" =>
          LET wps == Flatten(joint_traj)
              theta(k) == wps[pt_configurations[k + 1][1]][pt_configurations[k + 1][2]]
              n == Len(pt_configurations) - 2
              too_fast == \E k \in 1..(n - 1) : \E j \in 1..2 :
                              \/ theta(k + 1)[j] - theta(k)[j] > limits.vel_joint[j] * TimeStep
                              \/ theta(k)[j] - theta(k + 1)[j] > limits.vel_joint[j] * TimeStep
          IN  IF too_fast
              THEN pc' = "raised" /\ exc' = "VelocityLimitViolation"
              ELSE pc' = "returned" /\ exc' = "none"]_vars

\* C12 witness: a violation by a joint that moves in the negative direction.
C12_Witness ==
    /\ exc = "VelocityLimitViolation"
    /\ PathJoints(joint_traj, pt_configurations)[1][1]
           > PathJoints(joint_traj, pt_configurations)[2][1]

(***************************************************************************)
(* Inverse kinematics of the spherical wrist: input validation and the     *)
(* meaning of the pose flags.                                              *)
(***************************************************************************)
\* Number of axes the solver expects in the joint-descriptor list.
AxisCount == 6

\* flags & mask for a single-bit mask and a flag of 0..7.
BitSet(flags, mask) == (flags \div mask) % 2 = 1

\* Faulty variant: the elbow bit is read as flags // 2 == 1.
Configuration_mut_elbow(flags) ==
    [non_flip |-> BitSet(flags, 1),
     up |-> (flags \div 2) = 1,
     right |-> BitSet(flags, 4)]

\* non_flip = (flags & 1) == 1; up = (flags & 2) == 2; right = (flags & 4) == 4
Configuration(flags) ==
    [non_flip |-> BitSet(flags, 1),
     up |-> BitSet(flags, 2),
     right |-> BitSet(flags, 4)]

\* Target poses: the position of the tool centre point, the orientation fixed.
TargetPoses == {<<1, 2, 3>>, <<349, 0, 644>>, <<10000, 0, 0>>}

\* Six-axis joint vectors the solver can return, in degrees.
Solutions == {<<0, 0, 90, 0, 90, 0>>, <<90, -26, 116, 90, -90, 90>>,
              <<90, -67, 112, 0, 45, 0>>}

\* What the geometric solution ends with for valid input: the position is out
\* of reach, or a joint vector.
SolverOutcomes == {Raise("ValueError")} \cup {Return(v) : v \in Solutions}

\* Faulty variant: the length of the joint-descriptor list is not examined.
ik_spherical_wrist_mut_any_length(config_len, tform, pose_flags, solved) ==
    IF pose_flags \notin 0..7 THEN Raise("ValueError")
    ELSE IF solved.exc # "none" THEN solved
    ELSE Return([joints |-> solved.val, branches |-> Configuration(pose_flags)])

\* ik_spherical_wrist(config, tform, pose_flags): the flags and the joint list
\* are validated, then the arm and the wrist are solved on the branches the
\* flags select; solved is the outcome of that solution.
ik_spherical_wrist(config_len, tform, pose_flags, solved) ==
    IF pose_flags \notin 0..7 THEN Raise("ValueError")
    ELSE IF config_len # AxisCount THEN Raise("ValueError")
    ELSE IF solved.exc # "none" THEN solved
    ELSE Return([joints |-> solved.val, branches |-> Configuration(pose_flags)])

\* ik_spherical_wrist called with a joint list of any of three lengths and a
\* pose flag of -1..8.
Call_ik_spherical_wrist ==
    /\ call.op = "none"
    /\ \E config_len \in {AxisCount - 1, AxisCount, AxisCount + 1} :
       \E tform \in TargetPoses : \E pose_flags \in -1..8 :
       \E solved \in SolverOutcomes :
           /\ call' = [op |-> "ik_spherical_wrist",
                       args |-> <<config_len, tform, pose_flags>>]
           /\ ret' = ik_spherical_wrist(config_len, tform, pose_flags, solved)
    /\ UNCHANGED <<runVars, deviceVars>>

SpecIK == Init /\ [][Call_ik_spherical_wrist]_vars

\* C13: the inverse kinematics rejects invalid input with ValueError for every
\* target pose: a pose flag outside 0..7 (-1, 8), and a joint-descriptor list
\* one shorter or one longer than the expected axis count.
C13_RejectsInvalidInput ==
    call.op = "ik_spherical_wrist" =>
        LET config_len == call.args[1]
            pose_flags == call.args[3]
        IN  (pose_flags < 0 \/ pose_flags > 7 \/ config_len # 6) =>
                ret.exc = "ValueError"

\* C13 witness: a joint list one too long with valid flags is rejected.
C13_Witness ==
    /\ call.op = "ik_spherical_wrist"
    /\ call.args[1] = 7
    /\ call.args[3] = 7
    /\ ret.exc = "ValueError"

\* C15: the pose flags 0..7 map one-to-one onto the 8 configurations: bit 0
\* set means non-flip, bit 1 set elbow up, bit 2 set shoulder right; two
\* different flags never select the same three branch choices and every
\* combination of branch choices has a flag.
C15_FlagsOneToOne ==
    /\ (call.op = "ik_spherical_wrist" /\ ret.exc = "none") =>
           LET pose_flags == call.args[3]
           IN  /\ ret.val.branches.non_flip <=> pose_flags \in {1, 3, 5, 7}
               /\ ret.val.branches.up <=> pose_flags \in {2, 3, 6, 7}
               /\ ret.val.branches.right <=> pose_flags \in {4, 5, 6, 7}
    /\ \A f \in 0..7 : \A g \in 0..7 : Configuration(f) = Configuration(g) => f = g
    /\ \A c \in [non_flip : BOOLEAN, up : BOOLEAN, right : BOOLEAN] :
           \E f \in 0..7 : Configuration(f) = c

\* C15 witness: flags 6 select shoulder right, elbow up, wrist flip.
C15_Witness ==
    /\ call.op = "ik_spherical_wrist"
    /\ call.args[3] = 6
    /\ ret.exc = "none"
    /\ ret.val.branches = [non_flip |-> FALSE, up |-> TRUE, right |-> TRUE]

(***************************************************************************)
(* Coordinates with unset components (class Coordinate, not part of the    *)
(* source tree) and the move commands of                                   *)
(* src/src/printer_components/MelfaRobot.py.                               *)
(* A coordinate maps its axes to components; a component is <<>> (None) or *)
(* <<v>>. The model keeps the translation axes X, Y and the rotation axis  *)
(* A, and the active plane XY.                                             *)
(***************************************************************************)
SetComponents == {<<0>>, <<1>>}

\* Coordinates over the given axes without / with unset components.
CompleteOver(axes) == [axes -> SetComponents]

PartialOver(axes) == [axes -> SetComponents \cup {Unset}]

\* Coordinate.update_empty(ref): a None component is taken from ref.
update_empty(c, ref) ==
    [a \in DOMAIN c |-> IF c[a] = Unset /\ a \in DOMAIN ref THEN ref[a] ELSE c[a]]

\* Coordinate.reduce_to_axes(axes): the other axes are dropped.
reduce_to_axes(c, axes) == [a \in DOMAIN c \cap axes |-> c[a]]

\* Coordinate.__add__: component-wise on the common axes, None when either
\* component is None.
CoordAdd(c, d) ==
    [a \in DOMAIN c \cap DOMAIN d |->
        IF c[a] = Unset \/ d[a] = Unset THEN Unset ELSE <<c[a][1] + d[a][1]>>]

\* len(target_pos.values) > 0 and any(a is not None for a in target_pos.values)
AnySet(c) == \E a \in DOMAIN c : c[a] # Unset

\* An optional argument: None or a coordinate.
NoneArg == [given |-> FALSE]

Given(c) == [given |-> TRUE, pos |-> c]

\* A command sent to the controller with the point written into its text.
Sent(cmd, point) == [cmd |-> cmd, point |-> point]

\* Faulty variant: the target is sent as it was passed.
linear_move_poll_mut_no_fill(target_pos, current_pos, robot_pos) ==
    IF AnySet(target_pos)
    THEN Return(<<Sent("MVS", target_pos)>>)
    ELSE Return(<<>>)

\* MelfaRobot.linear_move_poll (speed None): lines 420-434. robot_pos is
\* the position get_pos() reads from the controller.
linear_move_poll(target_pos, current_pos, robot_pos) ==
    IF AnySet(target_pos)
    THEN LET cur == IF current_pos.given THEN current_pos.pos ELSE robot_pos
         IN  Return(<<Sent("MVS", update_empty(target_pos, cur))>>)
    ELSE Return(<<>>)

\* The part of the turn from start to target about center that
\* get_directed_angle returns, in the XY plane: "below_pi", "from_pi" (pi up
\* to, not including, a full turn) or "two_pi". atan2(0, 0) = 0 makes the
\* zero vector point along x.
AngleClass(start_pos, target_pos, center_pos, is_clockwise) ==
    LET dir(p) == LET v == <<p["X"][1] - center_pos["X"][1],
                             p["Y"][1] - center_pos["Y"][1]>>
                  IN  IF v = <<0, 0>> THEN <<1, 0>> ELSE v
        a == dir(start_pos)
        b == dir(target_pos)
        cross == a[1] * b[2] - a[2] * b[1]
        dot == a[1] * b[1] + a[2] * b[2]
        turn == IF is_clockwise THEN -cross ELSE cross
    IN  IF cross = 0 /\ dot > 0 THEN "two_pi"
        ELSE IF turn > 0 THEN "below_pi"
        ELSE "from_pi"

\* Results of get_intermediate_point for coordinates over the given axes: a
\* point of the circle, the rotation components left unset.
IntermediatePoints(axes) ==
    {p \in PartialOver(axes) : \A a \in axes : (p[a] = Unset) <=> (a \notin TranslationAxes)}

\* The three position variables and the move command that uses them.
CircleCommands(cmd, p1, p2, p3) ==
    <<Sent("P1", p1), Sent("P2", p2), Sent("P3", p3), Sent(cmd, <<>>)>>

\* get_angle subtracts the X and Y components of the three positions.
HasPlanePosition(c) ==
    \A a \in TranslationAxes : a \in DOMAIN c /\ c[a] # Unset

\* Faulty variant: the intermediate points are sent as computed.
circular_move_poll_mut_raw_intermediate(target_pos, center_pos, is_clockwise, start_pos,
                                        robot_pos, im, im2) ==
    LET start == IF start_pos.given THEN start_pos.pos ELSE robot_pos
        target == update_empty(target_pos, start)
        center == update_empty(center_pos, start)
        axes == DOMAIN start \cap DOMAIN target \cap DOMAIN center
    IN  IF ~AnySet(target_pos) THEN Return(<<>>)
        ELSE IF ~(HasPlanePosition(start) /\ HasPlanePosition(target)
                  /\ HasPlanePosition(center))
        THEN Raise("TypeError")
        ELSE LET angle == AngleClass(start, target, center, is_clockwise)
                 im_pos == reduce_to_axes(im, axes)
                 im_pos2 == reduce_to_axes(im2, axes)
             IN  IF angle = "two_pi"
                 THEN Return(CircleCommands("MVR", start, im_pos2, im_pos))
                 ELSE IF angle = "from_pi"
                 THEN Return(CircleCommands("MVR", start, im_pos, target))
                 ELSE Return(CircleCommands("MVR3", start, target, center))

\* Faulty variant: the centre form is sent whatever the angle.
circular_move_poll_mut_centre_form(target_pos, center_pos, is_clockwise, start_pos, robot_pos, im, im2) ==
    LET start == IF start_pos.given THEN start_pos.pos ELSE robot_pos
        target == update_empty(target_pos, start)
        center == update_empty(center_pos, start)
    IN  IF ~AnySet(target_pos) THEN Return(<<>>)
        ELSE IF ~(HasPlanePosition(start) /\ HasPlanePosition(target)
                  /\ HasPlanePosition(center))
        THEN Raise("TypeError")
        ELSE Return(CircleCommands("MVR3", start, target, center))

\* MelfaRobot.circular_move_poll (speed None): lines 473-512. im and im2 are
\* the results of get_intermediate_point.
circular_move_poll(target_pos, center_pos, is_clockwise, start_pos, robot_pos, im, im2) ==
    LET start == IF start_pos.given THEN start_pos.pos ELSE robot_pos
        target == update_empty(target_pos, start)
        center == update_empty(center_pos, start)
        axes == DOMAIN start \cap DOMAIN target \cap DOMAIN center
    IN  IF ~AnySet(target_pos) THEN Return(<<>>)
        ELSE IF ~(HasPlanePosition(start) /\ HasPlanePosition(target)
                  /\ HasPlanePosition(center))
        THEN Raise("TypeError")
        ELSE LET angle == AngleClass(start, target, center, is_clockwise)
                 im_pos == update_empty(reduce_to_axes(im, axes), start)
                 im_pos2 == update_empty(reduce_to_axes(im2, axes), start)
             IN  IF angle = "two_pi"
                 THEN Return(CircleCommands("MVR", start, im_pos2, im_pos))
                 ELSE IF angle = "from_pi"
                 THEN Return(CircleCommands("MVR", start, im_pos, target))
                 ELSE Return(CircleCommands("MVR3", start, target, center))

\* MelfaRobot.handle_gcode, interactive, for the movement codes (lines
\* 145-206; millimetres, no speed): the current position is read and reduced
\* to the translation axes.
handle_gcode(gcode, absolute_coordinates, robot_pos, im, im2) ==
    LET current_pos == reduce_to_axes(robot_pos, TranslationAxes)
        target == IF absolute_coordinates THEN gcode.cartesian_abs
                  ELSE CoordAdd(gcode.cartesian_abs, current_pos)
        center == CoordAdd(current_pos, gcode.cartesian_rel)
    IN  IF gcode.id = "G1"
        THEN linear_move_poll(target, Given(current_pos), robot_pos)
        ELSE IF gcode.id = "G2"
        THEN circular_move_poll(target, center, TRUE, Given(current_pos), robot_pos,
                                im, im2)
        ELSE circular_move_poll(target, center, FALSE, NoneArg, robot_pos, im, im2)

\* G-code movement commands: target and centre offset over the translation axes.
GCodes ==
    [id : {"G1", "G2", "G3"},
     cartesian_abs : PartialOver(TranslationAxes),
     cartesian_rel : PartialOver(TranslationAxes)]

\* Targets the repository passes to linear_move_poll itself: complete
\* coordinates (demo) and self.zero (go_home).
DirectTargets == CompleteOver(AllAxes) \cup {Zero}

\* robot.linear_move_poll(point): no current position is passed.
Call_linear_move_poll ==
    /\ call.op = "none"
    /\ \E target_pos \in DirectTargets : \E robot_pos \in CompleteOver(AllAxes) :
           /\ call' = [op |-> "linear_move_poll",
                       args |-> <<target_pos, NoneArg, robot_pos>>]
           /\ ret' = linear_move_poll(target_pos, NoneArg, robot_pos)
    /\ UNCHANGED <<runVars, deviceVars>>

\* robot.circular_move_poll(target, center, clockwise, speed, start_pos=start)
\* with complete coordinates (demo).
Call_circular_move_poll ==
    /\ call.op = "none"
    /\ \E target_pos \in CompleteOver(AllAxes) : \E center_pos \in CompleteOver(AllAxes) :
       \E start \in CompleteOver(AllAxes) : \E is_clockwise \in BOOLEAN :
       \E im \in IntermediatePoints(AllAxes) : \E im2 \in IntermediatePoints(AllAxes) :
           /\ call' = [op |-> "circular_move_poll",
                       args |-> <<target_pos, center_pos, is_clockwise, Given(start)>>]
           /\ ret' = circular_move_poll(target_pos, center_pos, is_clockwise,
                                        Given(start), start, im, im2)
    /\ UNCHANGED <<runVars, deviceVars>>

\* robot.handle_gcode(gcode) in absolute or relative mode.
Call_handle_gcode ==
    /\ call.op = "none"
    /\ \E gcode \in GCodes : \E absolute_coordinates \in BOOLEAN :
       \E robot_pos \in CompleteOver(AllAxes) :
       \E im \in IntermediatePoints(AllAxes) : \E im2 \in IntermediatePoints(AllAxes) :
           /\ call' = [op |-> "handle_gcode",
                       args |-> <<gcode, absolute_coordinates, robot_pos>>]
           /\ ret' = handle_gcode(gcode, absolute_coordinates, robot_pos, im, im2)
    /\ UNCHANGED <<runVars, deviceVars>>

SpecRobot ==
    Init /\ [][Call_linear_move_poll \/ Call_circular_move_poll \/ Call_handle_gcode]_vars

CheckTrajParameters == 10

\* Positional arguments of the call check_traj(...) in check_trajectory.
CheckTrajArguments == 7

\* sys.exit(code)
SysExit(code) == [exc |-> "SystemExit", val |-> code]

\* The call on line 62: a call with too few arguments raises TypeError before
\* the body of check_traj runs; run is how the body ends otherwise.
CallCheckTraj(arguments, run) ==
    IF arguments # CheckTrajParameters THEN Raise("TypeError") ELSE run

\* check_trajectory, lines 60-68: CartesianLimitViolation ends with
\* sys.exit(EXIT_INVALID_TRAJECTORY), ConfigurationChangesError is replaced by
\* NotImplementedError, any other exception leaves the function as it is.
check_trajectory(run) ==
    LET r == CallCheckTraj(CheckTrajArguments, run)
    IN  IF r.exc = "CartesianLimitViolation" THEN SysExit("EXIT_INVALID_TRAJECTORY")
        ELSE IF r.exc = "ConfigurationChangesError" THEN Raise("NotImplementedError")
        ELSE r

\* The command ends: its result for the way the validation run ended.
Cli_check_trajectory ==
    /\ pc \in {"returned", "raised"}
    /\ call.op = "none"
    /\ call' = [op |-> "check_trajectory", args |-> <<exc>>]
    /\ ret' = check_trajectory([exc |-> exc, val |-> FALSE])
    /\ UNCHANGED <<runVars, deviceVars>>

SpecCli == Init /\ [][Next \/ Cli_check_trajectory]_vars

\* The validation failures check_traj raises.
ValidationFailures ==
    {"CartesianLimitViolation", "UnreachableWaypoint", "ConfigurationChangesError",
     "VelocityLimitViolation", "CollisionViolation", "NoValidPathFound"}

\* C17: the check_trajectory command ends with exit code
\* EXIT_INVALID_TRAJECTORY on any validation failure raised by check_traj and
\* with exit code 0 (a normal return) on success.
C17_ExitCodes ==
    call.op = "check_trajectory" =>
        /\ call.args[1] \in ValidationFailures =>
               ret.exc = "SystemExit" /\ ret.val = "EXIT_INVALID_TRAJECTORY"
        /\ call.args[1] = "none" => ret.exc = "none"

(***************************************************************************)
(* src/src/AM_IR/circle_util.py                                            *)
(* Input vectors have integer components. A computed vector is kept        *)
(* exactly as [v, n], standing for v / sqrt(n); n = 0 stands for the       *)
(* result of 0 / 0 (nan in every component).                               *)
(***************************************************************************)
Cross(u, w) ==
    <<u[2] * w[3] - u[3] * w[2], u[3] * w[1] - u[1] * w[3], u[1] * w[2] - u[2] * w[1]>>

Dot(u, w) == u[1] * w[1] + u[2] * w[2] + u[3] * w[3]

\* v / sqrt(n)
Scaled(v, n) == [v |-> v, n |-> n]

\* v / numpy.sqrt(numpy.sum(v ** 2))
Normalised(v) == Scaled(v, Dot(v, v))

\* No normal vector was passed (normal_vec=None).
NoNormal == <<>>

\* lines 41-48: assert numpy.dot(normal_vec, veca) == 0 and
\* numpy.dot(normal_vec, vecb); the second operand is true when the dot
\* product is not zero. numpy.dot with None raises TypeError.
FreePlaneFallback(veca, vecb, normal_vec) ==
    IF normal_vec = NoNormal THEN Raise("ValueError")
    ELSE IF Dot(normal_vec, veca) = 0 /\ Dot(normal_vec, vecb) # 0
    THEN Return(Scaled(normal_vec, 1))
    ELSE Raise("ValueError")

\* z = numpy.cross(veca, vecb); z[2] = abs(z[2])
CrossAbsZ(veca, vecb) ==
    LET z == Cross(veca, vecb) IN <<z[1], z[2], Abs(z[3])>>

\* lines 20-50: the z-axis for the plane.
CircleZAxis(veca, vecb, plane, normal_vec) ==
    CASE plane = "XY" -> Return(Scaled(<<0, 0, 1>>, 1))
      [] plane = "YZ" -> Return(Scaled(<<-1, 0, 0>>, 1))
      [] plane = "XZ" -> Return(Scaled(CrossAbsZ(veca, vecb), 1))
      [] plane = "FREE" ->
             LET z == CrossAbsZ(veca, vecb)
             IN  IF Dot(z, z) # 0 THEN Return(Normalised(z))
                 ELSE FreePlaneFallback(veca, vecb, normal_vec)
      [] OTHER -> Raise("UnknownPlaneError")

\* get_circle_cs: x = cross([0, 1, 0], z), y = cross(z, x) normalised.
get_circle_cs(veca, vecb, plane, normal_vec) ==
    LET z_axis == CircleZAxis(veca, vecb, plane, normal_vec)
    IN  IF z_axis.exc # "none" THEN z_axis
        ELSE LET z == z_axis.val
                 x == Cross(<<0, 1, 0>>, z.v)
                 y == Cross(z.v, x)
             IN  Return([x_axis |-> Scaled(x, z.n),
                         y_axis |-> Normalised(y),
                         z_axis |-> z])

VectorComponents == {-1, 0, 1}

Vectors == VectorComponents \X VectorComponents \X VectorComponents

Planes == {"XY", "YZ", "XZ", "FREE", "ANY"}

NormalVectors == {NoNormal, <<0, 0, 1>>, <<0, 1, 0>>, <<1, 0, 0>>, <<1, 1, 0>>}

\* get_circle_cs(veca, vecb, plane, normal_vec)
Call_get_circle_cs ==
    /\ call.op = "none"
    /\ \E veca \in Vectors : \E vecb \in Vectors : \E plane \in Planes :
       \E normal_vec \in NormalVectors :
           /\ call' = [op |-> "get_circle_cs", args |-> <<veca, vecb, plane, normal_vec>>]
           /\ ret' = get_circle_cs(veca, vecb, plane, normal_vec)
    /\ UNCHANGED <<runVars, deviceVars>>

SpecCircle == Init /\ [][Call_get_circle_cs]_vars

\* Two computed vectors are the same vector: v / sqrt(n) = w / sqrt(m), and
\* neither is nan.
SameVector(p, q) ==
    /\ p.n # 0
    /\ q.n # 0
    /\ \A i \in 1..3 : p.v[i] * Abs(p.v[i]) * q.n = q.v[i] * Abs(q.v[i]) * p.n

\* C18: when the cross product of the two circle vectors is zero in the free
\* plane, get_circle_cs uses the supplied normal vector as z-axis whenever it
\* is perpendicular to both input vectors, and fails when no normal vector is
\* supplied or when the supplied vector has a non-zero dot product with
\* either input vector.
C18_NormalFallback ==
    (/\ call.op = "get_circle_cs"
     /\ call.args[3] = "FREE"
     /\ Cross(call.args[1], call.args[2]) = <<0, 0, 0>>) =>
        LET veca == call.args[1]
            vecb == call.args[2]
            normal_vec == call.args[4]
        IN  IF normal_vec = <<>> THEN ret.exc # "none"
            ELSE IF Dot(normal_vec, veca) = 0 /\ Dot(normal_vec, vecb) = 0
            THEN ret.exc = "none" /\ SameVector(ret.val.z_axis, Scaled(normal_vec, 1))
            ELSE ret.exc # "none"

\* C19: for every pair of non-collinear vectors a, b and every plane,
\* get_circle_cs(a, b, plane) and get_circle_cs(b, a, plane) return the same
\* x-, y- and z-axis.
C19_LabelIndependent ==
    (/\ call.op = "get_circle_cs"
     /\ call.args[3] \in {"XY", "YZ", "XZ", "FREE"}
     /\ Cross(call.args[1], call.args[2]) # <<0, 0, 0>>) =>
        LET swapped == get_circle_cs(call.args[2], call.args[1], call.args[3],
                                     call.args[4])
        IN  /\ ret.exc = "none"
            /\ swapped.exc = "none"
            /\ SameVector(ret.val.x_axis, swapped.val.x_axis)
            /\ SameVector(ret.val.y_axis, swapped.val.y_axis)
            /\ SameVector(ret.val.z_axis, swapped.val.z_axis)

(***************************************************************************)
(* get_intermediate_points. Angles are counted in quarter turns (pi / 2),  *)
(* so 2 is pi and 4 is 2 * pi. A computed point is kept exactly as         *)
(* [center, v, num, den], standing for center + v * sqrt(num / den).       *)
(***************************************************************************)
VecAdd(u, w) == <<u[1] + w[1], u[2] + w[2], u[3] + w[3]>>

VecSub(u, w) == <<u[1] - w[1], u[2] - w[2], u[3] - w[3]>>

VecNeg(u) == <<-u[1], -u[2], -u[3]>>

OffsetPoint(center, v, num, den) == [center |-> center, v |-> v, num |-> num, den |-> den]

\* get_intermediate_points, lines 106-142. The full-circle branch computes i2
\* and assigns nothing to intermediate, so the return statement finds the
\* local variable unbound.
get_intermediate_points(angle, start, target, center, plane, normal_vec) ==
    LET cm2 == VecSub(VecAdd(target, start), VecAdd(center, center))
        radius2 == Dot(VecSub(center, start), VecSub(center, start))
    IN  IF Abs(angle) = 4 THEN Raise("UnboundLocalError")
        ELSE IF Abs(angle) = 2
        THEN IF normal_vec = NoNormal THEN Raise("TypeError")
             ELSE LET normal_r == Cross(VecSub(target, center), normal_vec)
                  IN  Return(OffsetPoint(center,
                                         IF angle < 0 THEN VecNeg(normal_r) ELSE normal_r,
                                         1, 1))
        ELSE IF cm2 = <<0, 0, 0>> THEN Raise("ZeroDivisionError")
        ELSE IF Abs(angle) = 1
        THEN Return(OffsetPoint(center, cm2, radius2, Dot(cm2, cm2)))
        ELSE IF Abs(angle) = 3
        THEN Return(OffsetPoint(center, VecNeg(cm2), radius2, Dot(cm2, cm2)))
        ELSE Raise("NotImplementedError")

\* Angles from beyond a full turn clockwise to beyond one counterclockwise.
QuarterTurns == -5..5

\* Points of the XY plane.
PlanePoints == {<<x, y, 0>> : x \in VectorComponents, y \in VectorComponents}

\* get_intermediate_points(angle, start, target, center, plane, normal_vec)
Call_get_intermediate_points ==
    /\ call.op = "none"
    /\ \E angle \in QuarterTurns : \E start \in PlanePoints : \E target \in PlanePoints :
       \E center \in PlanePoints : \E normal_vec \in {NoNormal, <<0, 0, 1>>} :
           /\ call' = [op |-> "get_intermediate_points",
                       args |-> <<angle, start, target, center, "XY", normal_vec>>]
           /\ ret' = get_intermediate_points(angle, start, target, center, "XY",
                                             normal_vec)
    /\ UNCHANGED <<runVars, deviceVars>>

SpecIntermediate == Init /\ [][Call_get_intermediate_points]_vars

\* C20: for an angle of magnitude exactly 2 * pi the intermediate-point
\* function returns the point diametrically opposite the start point with
\* respect to the centre (2 * center - start), for either sign of the angle.
C20_FullCircleOpposite ==
    (call.op = "get_intermediate_points" /\ call.args[1] \in {-4, 4}) =>
        LET start == call.args[2]
            center == call.args[4]
        IN  /\ ret.exc = "none"
            /\ ret.val.num = ret.val.den
            /\ VecAdd(ret.val.center, ret.val.v) = VecSub(VecAdd(center, center), start)

\* ---------------------------------------------------------------------------
\* Directed arc angles: get_angle of src/src/AM_IR/circle_util.py and
\* get_directed_angle of src/src/printer_components/MelfaRobot.py. Angles are
\* counted in eighths of a full turn (pi = 4, 2 * pi = 8), which is exact for
\* vectors on the axes and the diagonals of the circle's plane.
\* ---------------------------------------------------------------------------

\* Vectors whose direction is a multiple of an eighth turn.
OnEighth(v) == v[1] = 0 \/ v[2] = 0 \/ Abs(v[1]) = Abs(v[2])

\* math.atan2(y, x), with a result in (-pi, pi] and atan2(0, 0) = 0.
Atan2(y, x) ==
    IF y = 0 THEN (IF x < 0 THEN 4 ELSE 0)
    ELSE IF y > 0 THEN (IF x > 0 THEN 1 ELSE IF x = 0 THEN 2 ELSE 3)
    ELSE (IF x > 0 THEN -1 ELSE IF x = 0 THEN -2 ELSE -3)

\* get_angle, lines 85-103, for the XY plane, whose circle coordinate system
\* is the global one: the projections of a vector are its x and y components.
get_angle(start, target, center, plane) ==
    LET veca == VecSub(start, center)
        vecb == VecSub(target, center)
    IN  Atan2(vecb[2], vecb[1]) - Atan2(veca[2], veca[1])

\* Faulty variant: the full turn is applied whatever the sign of the angle.
get_directed_angle_mut_always_wrap(start_pos, target_pos, center_pos, is_clockwise) ==
    LET angle == get_angle(start_pos, target_pos, center_pos, "XY")
    IN  IF ~is_clockwise THEN angle + 8 ELSE angle - 8

\* Faulty variant: an angle of zero is left as it is.
get_directed_angle_mut_strict(start_pos, target_pos, center_pos, is_clockwise) ==
    LET angle == get_angle(start_pos, target_pos, center_pos, "XY")
    IN  IF ~is_clockwise
        THEN (IF angle < 0 THEN angle + 8 ELSE angle)
        ELSE (IF angle > 0 THEN angle - 8 ELSE angle)

\* get_directed_angle, lines 517-529.
get_directed_angle(start_pos, target_pos, center_pos, is_clockwise) ==
    LET angle == get_angle(start_pos, target_pos, center_pos, "XY")
    IN  IF ~is_clockwise
        THEN (IF angle <= 0 THEN angle + 8 ELSE angle)
        ELSE (IF angle >= 0 THEN angle - 8 ELSE angle)

\* Centres of the arcs.
ArcCenters == {<<0, 0, 0>>, <<1, 0, 0>>}

\* Start, target and centre with start and target on the axes or diagonals
\* through the centre.
ArcInputs ==
    {t \in PlanePoints \X PlanePoints \X ArcCenters :
        OnEighth(VecSub(t[1], t[3])) /\ OnEighth(VecSub(t[2], t[3]))}

\* get_directed_angle(start_pos, target_pos, center_pos, is_clockwise)
Call_get_directed_angle ==
    /\ call.op = "none"
    /\ \E t \in ArcInputs : \E is_clockwise \in BOOLEAN :
           /\ call' = [op |-> "get_directed_angle",
                       args |-> <<t[1], t[2], t[3], is_clockwise>>]
           /\ ret' = Return(get_directed_angle(t[1], t[2], t[3], is_clockwise))
    /\ UNCHANGED <<runVars, deviceVars>>

SpecAngle == Init /\ [][Call_get_directed_angle]_vars

\* C21: for a raw angle a in (-2 * pi, 2 * pi) get_directed_angle returns a
\* value in (0, 2 * pi] for a counterclockwise arc and in [-2 * pi, 0) for a
\* clockwise one; the value is a when a has the requested sign and differs
\* from a by exactly one full turn otherwise, and a raw angle of zero yields
\* 2 * pi or -2 * pi.
C21_DirectedAngle ==
    call.op = "get_directed_angle" =>
        LET a == get_angle(call.args[1], call.args[2], call.args[3], "XY")
            cw == call.args[4]
            r == ret.val
        IN  (a > -8 /\ a < 8) =>
                /\ ret.exc = "none"
                /\ ~cw => (r > 0 /\ r <= 8)
                /\ cw => (r >= -8 /\ r < 0)
                /\ (~cw /\ a > 0) => r = a
                /\ (~cw /\ a <= 0) => r = a + 8
                /\ (cw /\ a < 0) => r = a
                /\ (cw /\ a >= 0) => r = a - 8
                /\ a = 0 => r = (IF cw THEN -8 ELSE 8)

C21_Witness ==
    /\ call.op = "get_directed_angle"
    /\ get_angle(call.args[1], call.args[2], call.args[3], "XY") = 0
    /\ call.args[1] # call.args[3]
    /\ ret.val = -8

\* ---------------------------------------------------------------------------
\* Administration of the robot: boot, shutdown, the state changes and
\* set_speed of src/src/printer_components/MelfaRobot.py. An operation is a
\* function on a record m of the robot's flags, the commands sent over the TCP
\* client so far, the number of tcp.close() calls and the pending exception.
\* The controller answers a command with an error when the command is in the
\* set faults; tcp.receive() then raises MelfaBaseException.
\* ---------------------------------------------------------------------------

\* Largest number of commands the controller answers with an error during one
\* operation.
MaxFaults == 2

\* Longest point of the calls of is_point_within_boundaries.
MaxPointLen == 2

Cmd(name, text) == [cmd |-> name, text |-> text, val |-> 0]

CmdVal(name, text, val) == [cmd |-> name, text |-> text, val |-> val]

\* The state an operation starts from: nothing sent, nothing pending.
Entry(r) ==
    [robot |-> [r EXCEPT !.go_safe_pos_calls = 0], sent |-> <<>>, close_calls |-> 0,
     wire |-> <<>>, exc |-> "none"]

\* self.tcp.send(cmd)
Send(m, cmd) ==
    IF m.exc # "none" THEN m
    ELSE [m EXCEPT !.sent = Append(@, cmd), !.wire = Append(@, "send")]

\* self.tcp.receive(): the answer to the command sent last; an error answer
\* raises MelfaBaseException.
Receive(m, faults) ==
    IF m.exc # "none" THEN m
    ELSE [m EXCEPT !.wire = Append(@, "receive"),
                   !.exc = IF m.sent # <<>> /\ m.sent[Len(m.sent)].cmd \in faults
                           THEN "MelfaBaseException" ELSE "none"]

\* self.tcp.send(cmd); self.tcp.receive()
Exchange(m, cmd, faults) == Receive(Send(m, cmd), faults)

\* self.tcp.send(cmd); self.tcp.receive(silence_errors=True)
ExchangeSilent(m, cmd) == Receive(Send(m, cmd), {})

\* Assignment to one of the operation flags.
SetFlag(m, flag, value) ==
    IF m.exc # "none" THEN m ELSE [m EXCEPT !.robot[flag] = value]

\* raise e
RaiseIn(m, e) == IF m.exc # "none" THEN m ELSE [m EXCEPT !.exc = e]

\* cmp_response(poll_cmd, response, tcp): polls the controller until it
\* answers with the expected response.
cmp_response(m, poll_cmd, faults) == Exchange(m, Cmd(poll_cmd, ""), faults)

\* Faulty variant: the flag is assigned before the exchange.
activate_work_coordinate_mut_flag_first(m, active, faults) ==
    Exchange(SetFlag(m, "work_coordinate_active", active),
             IF active THEN Cmd("SET_BASE_COORDINATES", "(-500,0,-250,0,0,0)")
             ELSE Cmd("RESET_BASE_COORDINATES", ""),
             faults)

\* activate_work_coordinate, lines 125-134.
activate_work_coordinate(m, active, faults) ==
    SetFlag(Exchange(m,
                     IF active THEN Cmd("SET_BASE_COORDINATES", "(-500,0,-250,0,0,0)")
                     ELSE Cmd("RESET_BASE_COORDINATES", ""),
                     faults),
            "work_coordinate_active", active)

\* _change_communication_state, lines 269-288.
_change_communication_state(m, activate, faults) ==
    LET opened == IF activate
                  THEN Exchange(Exchange(m, Cmd("COM_OPEN", ""), faults),
                                Cmd("CNTL_ON", ""), faults)
                  ELSE Exchange(Exchange(m, Cmd("CNTL_OFF", ""), faults),
                                Cmd("COM_CLOSE", ""), faults)
    IN  SetFlag(opened, "com_ctrl", activate)

\* _change_servo_state, lines 290-320.
_change_servo_state(m, activate, faults) ==
    LET switched == Exchange(m, Cmd(IF activate THEN "SRV_ON" ELSE "SRV_OFF", ""), faults)
        polled == cmp_response(switched, "VAR_READ+SRV_STATE_VAR", faults)
    IN  SetFlag(polled, "servo", activate)

\* reset_linear_speed_factor, lines 356-362.
reset_linear_speed_factor(m, faults) == Exchange(m, Cmd("MVS_SPEED", "MVS_MAX_SPEED"), faults)

\* _get_ovrd_speed, lines 603-610: the exchange; the value read is an input
\* of the operations that use it.
_get_ovrd_speed(m, faults) == Exchange(m, Cmd("OVERRIDE_CMD", ""), faults)

\* _set_ovrd, lines 589-601.
_set_ovrd(m, factor, faults) ==
    IF 1 <= factor /\ factor <= 100
    THEN Exchange(m, CmdVal("OVERRIDE_CMD=", "{}", factor), faults)
    ELSE RaiseIn(m, "MelfaBaseException")

\* The default speed_threshold of __init__, line 36.
SpeedThreshold == 10

\* Faulty variant: an override above the threshold is left as it is.
_check_speed_threshold_mut_no_lowering(m, speed_threshold, override, faults) ==
    _get_ovrd_speed(reset_linear_speed_factor(m, faults), faults)

\* _check_speed_threshold, lines 565-585.
_check_speed_threshold(m, speed_threshold, override, faults) ==
    LET read == _get_ovrd_speed(reset_linear_speed_factor(m, faults), faults)
    IN  IF override > speed_threshold THEN _set_ovrd(read, speed_threshold, faults)
        ELSE read

\* declare_position, lines 252-261: a duplicate declaration is answered with
\* an error that is reset; any other error is raised.
declare_position(m, var_name, faults) ==
    IF m.exc # "none" THEN m
    ELSE IF "DEF_POS duplicate" \in faults
    THEN Exchange(Receive(Send(m, Cmd("DEF_POS", var_name)), {}),
                  Cmd("ALARM_RESET_CMD", ""), faults)
    ELSE Exchange(m, Cmd("DEF_POS", var_name), faults)

\* _prepare_circle, lines 247-250.
_prepare_circle(m, faults) ==
    declare_position(declare_position(declare_position(m, "P1", faults), "P2", faults),
                     "P3", faults)

\* go_safe_pos, lines 387-403.
go_safe_pos(m, faults) ==
    IF m.exc # "none" THEN m
    ELSE LET called == [m EXCEPT !.robot.go_safe_pos_calls = @ + 1]
             read == Exchange(called, Cmd("PARAMETER_READ", "PARAMETER_SAFE_POSITION"),
                              faults)
             moved == Exchange(read, Cmd("MOVE_SAFE_POSITION", ""), faults)
         IN  cmp_response(moved, "CURRENT_JOINT", faults)

\* Faulty variant: the servos are switched on before the speed is checked.
boot_mut_servo_first(m, speed_threshold, override, faults) ==
    LET com == _change_communication_state(m, TRUE, faults)
        servo == _change_servo_state(com, TRUE, faults)
        speed == _check_speed_threshold(servo, speed_threshold, override, faults)
        base == activate_work_coordinate(speed, FALSE, faults)
        circle == _prepare_circle(base, faults)
        safe == IF circle.robot.safe_return THEN go_safe_pos(circle, faults) ELSE circle
    IN  activate_work_coordinate(safe, TRUE, faults)

\* boot, lines 68-91; speed_threshold is self.speed_threshold.
boot(m, speed_threshold, override, faults) ==
    LET com == _change_communication_state(m, TRUE, faults)
        speed == _check_speed_threshold(com, speed_threshold, override, faults)
        servo == _change_servo_state(speed, TRUE, faults)
        base == activate_work_coordinate(servo, FALSE, faults)
        circle == _prepare_circle(base, faults)
        safe == IF circle.robot.safe_return THEN go_safe_pos(circle, faults) ELSE circle
    IN  activate_work_coordinate(safe, TRUE, faults)

\* self.tcp.close()
tcp_close(m) == IF m.exc # "none" THEN m ELSE [m EXCEPT !.close_calls = @ + 1]

\* Faulty variant: the safe position depends on the argument of shutdown.
shutdown_mut_argument(m, safe_return, faults) ==
    LET base == activate_work_coordinate(m, FALSE, faults)
        safe == IF safe_return
                THEN go_safe_pos(ExchangeSilent(base, Cmd("ALARM_RESET_CMD", "")), faults)
                ELSE base
        tried == reset_linear_speed_factor(safe, faults)
        servo == _change_servo_state([tried EXCEPT !.exc = "none"], FALSE, faults)
        closed == tcp_close(_change_communication_state(servo, FALSE, faults))
    IN  IF closed.exc # "none" THEN closed ELSE [closed EXCEPT !.exc = tried.exc]

\* shutdown, lines 93-123: the try block, then the finally block, which runs
\* with no exception pending and on normal completion re-raises the exception
\* of the try block. The argument safe_return is not read.
shutdown(m, safe_return, faults) ==
    LET base == activate_work_coordinate(m, FALSE, faults)
        safe == IF base.robot.safe_return
                THEN go_safe_pos(ExchangeSilent(base, Cmd("ALARM_RESET_CMD", "")), faults)
                ELSE base
        tried == reset_linear_speed_factor(safe, faults)
        servo == _change_servo_state([tried EXCEPT !.exc = "none"], FALSE, faults)
        closed == tcp_close(_change_communication_state(servo, FALSE, faults))
    IN  IF closed.exc # "none" THEN closed ELSE [closed EXCEPT !.exc = tried.exc]

\* "{:.2f}".format(num / den) in hundredths: the nearest multiple of 0.01.
Format2f(num, den) == (200 * num + den) \div (2 * den)

\* Faulty variant: the override factor is not applied.
set_speed_mut_no_override(m, speed, mode, override, faults) ==
    IF speed <= 0 THEN RaiseIn(m, "SpeedBelowMinimum")
    ELSE IF mode = "joint" /\ speed > 100 THEN RaiseIn(m, "ValueError")
    ELSE LET read == _get_ovrd_speed(m, faults)
         IN  IF mode = "linear"
             THEN Exchange(read, CmdVal("MVS_SPEED", "{:.2f}", Format2f(speed, 1)), faults)
             ELSE IF mode = "joint"
             THEN Exchange(read, CmdVal("MOV_SPEED", "{:.2f}", Format2f(speed, 1)), faults)
             ELSE RaiseIn(read, "ValueError")

\* set_speed, lines 334-354: speed_val = speed / (override / 100).
set_speed(m, speed, mode, override, faults) ==
    IF speed <= 0 THEN RaiseIn(m, "SpeedBelowMinimum")
    ELSE IF mode = "joint" /\ speed > 100 THEN RaiseIn(m, "ValueError")
    ELSE LET read == _get_ovrd_speed(m, faults)
         IN  IF mode = "linear"
             THEN Exchange(read, CmdVal("MVS_SPEED", "{:.2f}",
                                        Format2f(speed * 100, override)), faults)
             ELSE IF mode = "joint"
             THEN Exchange(read, CmdVal("MOV_SPEED", "{:.2f}",
                                        Format2f(speed * 100, override)), faults)
             ELSE RaiseIn(read, "ValueError")

\* The sets of at most MaxFaults commands the controller fails on.
FaultSets(cmds) == {f \in SUBSET cmds : Cardinality(f) <= MaxFaults}

\* The commands the controller is let fail on, for each operation: those of
\* the state changes, and one command of every step of boot and shutdown.
WorkCoordinateCommands == {"SET_BASE_COORDINATES", "RESET_BASE_COORDINATES"}

CommunicationCommands == {"COM_OPEN", "CNTL_ON", "CNTL_OFF", "COM_CLOSE"}

ServoCommands == {"SRV_ON", "SRV_OFF", "VAR_READ+SRV_STATE_VAR"}

BootCommands ==
    {"COM_OPEN", "OVERRIDE_CMD", "OVERRIDE_CMD=", "SRV_ON", "RESET_BASE_COORDINATES",
     "DEF_POS", "DEF_POS duplicate", "MOVE_SAFE_POSITION", "SET_BASE_COORDINATES"}

ShutdownCommands ==
    {"RESET_BASE_COORDINATES", "MOVE_SAFE_POSITION", "MVS_SPEED", "SRV_OFF", "CNTL_OFF"}

SpeedCommands == {"OVERRIDE_CMD", "MVS_SPEED"}

\* Override factors the controller reports, speeds and modes of set_speed.
Overrides == {5, 30, 100}

Speeds == {0, 1, 12, 101}

Modes == {"linear", "joint", "rapid"}

\* The result of an operation and its effect on the robot and the TCP client.
Finish(op, args, m) ==
    /\ call' = [op |-> op, args |-> args]
    /\ ret' = IF m.exc = "none" THEN Return(<<>>) ELSE Raise(m.exc)
    /\ robot' = m.robot
    /\ tcp' = [sent |-> m.sent, close_calls |-> m.close_calls, wire |-> m.wire]
    /\ UNCHANGED <<runVars, client, rx>>

\* MelfaRobot(tcp_client, number_axes=number_axes, safe_return=safe_return),
\* lines 35-65.
Call_MelfaRobot ==
    /\ ~robot.constructed
    /\ \E number_axes \in {0, 6} : \E safe_return \in BOOLEAN :
           /\ call' = [op |-> "MelfaRobot", args |-> <<number_axes, safe_return>>]
           /\ IF number_axes <= 0
              THEN ret' = Raise("IllegalAxesCount") /\ robot' = robot
              ELSE /\ ret' = Return(<<>>)
                   /\ robot' = [robot EXCEPT !.constructed = TRUE,
                                             !.safe_return = safe_return]
    /\ UNCHANGED <<runVars, tcp, client, rx>>

Call_boot ==
    /\ robot.constructed
    /\ \E override \in Overrides : \E faults \in FaultSets(BootCommands) :
           Finish("boot", <<override>>,
                  boot(Entry(robot), SpeedThreshold, override, faults))

Call_shutdown ==
    /\ robot.constructed
    /\ \E safe_return \in BOOLEAN : \E faults \in FaultSets(ShutdownCommands) :
           Finish("shutdown", <<safe_return>>,
                  shutdown(Entry(robot), safe_return, faults))

Call_activate_work_coordinate ==
    /\ robot.constructed
    /\ \E active \in BOOLEAN : \E faults \in FaultSets(WorkCoordinateCommands) :
           Finish("activate_work_coordinate", <<active>>,
                  activate_work_coordinate(Entry(robot), active, faults))

Call__change_communication_state ==
    /\ robot.constructed
    /\ \E activate \in BOOLEAN : \E faults \in FaultSets(CommunicationCommands) :
           Finish("_change_communication_state", <<activate>>,
                  _change_communication_state(Entry(robot), activate, faults))

Call__change_servo_state ==
    /\ robot.constructed
    /\ \E activate \in BOOLEAN : \E faults \in FaultSets(ServoCommands) :
           Finish("_change_servo_state", <<activate>>,
                  _change_servo_state(Entry(robot), activate, faults))

Call_set_speed ==
    /\ robot.constructed
    /\ \E speed \in Speeds : \E mode \in Modes : \E override \in Overrides :
       \E faults \in FaultSets(SpeedCommands) :
           Finish("set_speed", <<speed, mode, override, faults>>,
                  set_speed(Entry(robot), speed, mode, override, faults))

SpecMelfa ==
    Init /\ [][Call_MelfaRobot \/ Call_boot \/ Call_shutdown
               \/ Call_activate_work_coordinate \/ Call__change_communication_state
               \/ Call__change_servo_state \/ Call_set_speed]_vars

C23_AlwaysClosed == call.op = "shutdown" => tcp.close_calls = 1

\* The state changes, their flags and the commands of each direction.
StateChanges ==
    {"activate_work_coordinate", "_change_communication_state", "_change_servo_state"}

OperationFlags == {"work_coordinate_active", "com_ctrl", "servo"}

FlagOf(op) ==
    CASE op = "activate_work_coordinate" -> "work_coordinate_active"
      [] op = "_change_communication_state" -> "com_ctrl"
      [] op = "_change_servo_state" -> "servo"

DirectionCommands(op, on) ==
    CASE op = "activate_work_coordinate" ->
             IF on THEN <<"SET_BASE_COORDINATES">> ELSE <<"RESET_BASE_COORDINATES">>
      [] op = "_change_communication_state" ->
             IF on THEN <<"COM_OPEN", "CNTL_ON">> ELSE <<"CNTL_OFF", "COM_CLOSE">>
      [] op = "_change_servo_state" ->
             IF on THEN <<"SRV_ON", "VAR_READ+SRV_STATE_VAR">>
             ELSE <<"SRV_OFF", "VAR_READ+SRV_STATE_VAR">>

CommandNames(sent) == [i \in 1..Len(sent) |-> sent[i].cmd]

\* C24: a state change sends only the commands of the requested direction, in
\* their order; it sets its own flag to the requested value only when every
\* exchange succeeded, leaves the flag at its previous value when an exchange
\* raises, and never changes the other two flags.
C24_StateChanges ==
    [][call'.op \in StateChanges =>
          LET op == call'.op
              on == call'.args[1]
              names == CommandNames(tcp'.sent)
          IN  /\ IsPrefix(names, DirectionCommands(op, on))
              /\ ret'.exc = "none" =>
                     /\ names = DirectionCommands(op, on)
                     /\ robot'[FlagOf(op)] = on
              /\ ret'.exc # "none" => robot'[FlagOf(op)] = robot[FlagOf(op)]
              /\ \A f \in OperationFlags \ {FlagOf(op)} : robot'[f] = robot[f]]_vars

C24_Witness ==
    /\ call.op = "_change_servo_state"
    /\ call.args[1] = FALSE
    /\ ret.exc = "MelfaBaseException"
    /\ robot.servo
    /\ CommandNames(tcp.sent) = <<"SRV_OFF">>

IsSpeedCommand(c) == c.cmd \in {"MVS_SPEED", "MOV_SPEED"}

\* C25: set_speed with speed <= 0 raises SpeedBelowMinimum and sends nothing;
\* with a valid speed and mode 'linear' it sends, once the override is read,
\* exactly one speed command, whose value is speed * 100 / override to two
\* decimals (1.00 for speed 1 at override 100, 40.00 for speed 12 at override
\* 30); mode 'joint' with speed > 100 and an unknown mode raise ValueError
\* and send no speed command.
C25_SetSpeed ==
    call.op = "set_speed" =>
        LET speed == call.args[1]
            mode == call.args[2]
            override == call.args[3]
            read == "OVERRIDE_CMD" \notin call.args[4]
            speed_cmds == SelectSeq(tcp.sent, IsSpeedCommand)
        IN  /\ speed <= 0 => (ret.exc = "SpeedBelowMinimum" /\ tcp.sent = <<>>)
            /\ (speed > 0 /\ mode = "linear") =>
                   /\ Len(speed_cmds) <= 1
                   /\ read =>
                          /\ Len(speed_cmds) = 1
                          /\ speed_cmds[1].cmd = "MVS_SPEED"
                          /\ 2 * Abs(speed_cmds[1].val * override - speed * 10000)
                                 <= override
                          /\ (speed = 1 /\ override = 100) => speed_cmds[1].val = 100
                          /\ (speed = 12 /\ override = 30) => speed_cmds[1].val = 4000
            /\ (speed > 0 /\ mode = "joint" /\ speed > 100) =>
                   (ret.exc = "ValueError" /\ tcp.sent = <<>>)
            /\ (speed > 0 /\ mode \notin {"linear", "joint"}) =>
                   /\ Len(speed_cmds) = 0
                   /\ read => ret.exc = "ValueError"

C25_Witness ==
    /\ call.op = "set_speed"
    /\ call.args = <<12, "linear", 30, {}>>
    /\ ret.exc = "none"
    /\ Len(tcp.sent) = 2
    /\ tcp.sent[2] = CmdVal("MVS_SPEED", "{:.2f}", 4000)

\* ---------------------------------------------------------------------------
\* The serial client of src/src/clients/ComClient.py. The record client holds
\* the port name and the USB ids given at construction ("None" and <<>> when
\* absent), the port configured on the serial object, whether that port is open,
\* whether the client is connected, and whether the ids were ever resolved.
\* connect, close and receive belong to the base class ThreadedClient and run
\* the hooks of ComClient in the order their names and docstrings give.
\* ---------------------------------------------------------------------------

ClientResult(c, e) == [client |-> c, exc |-> e]

\* USB devices serial.tools.list_ports.comports() may list.
Devices ==
    {[vid |-> 1, pid |-> 1, device |-> "ttyUSB0"],
     [vid |-> 1, pid |-> 1, device |-> "ttyUSB1"],
     [vid |-> 1, pid |-> 2, device |-> "ttyUSB2"],
     [vid |-> 2, pid |-> 2, device |-> "ttyUSB3"]}

\* ids and port arguments of the constructor.
IdArguments == {<<>>, <<1, 1>>, <<-1, -1>>}

PortArguments == {"None", "COM6"}

\* The startup message waiting after the port was opened.
StartupMessages == {"none", "terminated", "unterminated"}

\* Replies of the device to a message.
Replies == {"ok", "timeout"}

\* ComClient.__init__, lines 36-68: without a port the ids are unpacked, which
\* fails for ids=None.
ComClient(c, ids, port) ==
    IF port = "None" /\ ids = <<>> THEN ClientResult(c, "TypeError")
    ELSE ClientResult([c EXCEPT !.constructed = TRUE, !.port = port, !.ids = ids], "none")

\* Faulty variant: several matching devices, the first one is taken.
_resolve_ids_mut_first_match(c, comports) ==
    LET matches == {usb \in comports : usb.vid = c.ids[1] /\ usb.pid = c.ids[2]}
        seen == [c EXCEPT !.resolved = TRUE]
    IN  IF Cardinality(matches) = 0 THEN ClientResult(seen, "ClientNotAvailableError")
        ELSE ClientResult([seen EXCEPT !.ser_port = (CHOOSE usb \in matches : TRUE).device],
                          "none")

\* _resolve_ids, lines 128-147.
_resolve_ids(c, comports) ==
    LET matches == {usb \in comports : usb.vid = c.ids[1] /\ usb.pid = c.ids[2]}
        seen == [c EXCEPT !.resolved = TRUE]
    IN  IF Cardinality(matches) = 0 THEN ClientResult(seen, "ClientNotAvailableError")
        ELSE IF Cardinality(matches) = 1
        THEN ClientResult([seen EXCEPT !.ser_port = (CHOOSE usb \in matches : TRUE).device],
                          "none")
        ELSE ClientResult(seen, "AmbiguousHardwareError")

\* hook_pre_connect, lines 77-87.
hook_pre_connect(c, comports) ==
    IF c.port # "None" THEN ClientResult([c EXCEPT !.ser_port = c.port], "none")
    ELSE _resolve_ids(c, comports)

\* Faulty variant: a port that is open already is opened again.
hook_connect_mut_reopen(c, port_opens) ==
    IF ~port_opens THEN ClientResult(c, "ClientOpenError")
    ELSE ClientResult([c EXCEPT !.is_open = TRUE], "none")

\* hook_connect, lines 89-101: serial.Serial.open() raises SerialException for
\* a port that is open already or cannot be opened.
hook_connect(c, port_opens) ==
    IF c.is_open \/ ~port_opens THEN ClientResult(c, "ClientOpenError")
    ELSE ClientResult([c EXCEPT !.is_open = TRUE], "none")

\* hook_post_successful_connect, lines 103-126.
hook_post_successful_connect(c, startup) ==
    IF startup = "unterminated" THEN ClientResult(c, "ClientOpenError")
    ELSE ClientResult(c, "none")

\* ThreadedClient.connect: the three hooks in turn; the client is connected
\* when none of them raised.
connect(c, comports, port_opens, startup) ==
    LET pre == hook_pre_connect(c, comports)
        con == hook_connect(pre.client, port_opens)
        post == hook_post_successful_connect(con.client, startup)
    IN  IF pre.exc # "none" THEN pre
        ELSE IF con.exc # "none" THEN con
        ELSE IF post.exc # "none" THEN post
        ELSE ClientResult([post.client EXCEPT !.connected = TRUE], "none")

\* Faulty variant: closing a port that is not open is an error.
hook_close_mut_strict(c) ==
    IF ~c.is_open THEN ClientResult(c, "SerialException")
    ELSE ClientResult([c EXCEPT !.is_open = FALSE], "none")

\* hook_close, lines 149-155: serial.Serial.close() of a closed port does
\* nothing.
hook_close(c) == ClientResult([c EXCEPT !.is_open = FALSE], "none")

\* ThreadedClient.close: ends the connection and closes the port.
close(c) ==
    LET closed == hook_close(c)
    IN  IF closed.exc # "none" THEN closed
        ELSE ClientResult([closed.client EXCEPT !.connected = FALSE], "none")

\* ThreadedClient.receive: the reply of the device, or ClientError for a
\* client that is not connected.
receive(c, reply) ==
    IF c.connected THEN [exc |-> "none", val |-> reply] ELSE Raise("ClientError")

\* The result of a client operation.
FinishClient(op, args, result) ==
    /\ call' = [op |-> op, args |-> args]
    /\ ret' = IF result.exc = "none" THEN Return(<<>>) ELSE Raise(result.exc)
    /\ client' = result.client
    /\ UNCHANGED <<runVars, robot, tcp, rx>>

\* ComClient(ids, port=port)
Call_ComClient ==
    /\ ~client.constructed
    /\ \E ids \in IdArguments : \E port \in PortArguments :
           FinishClient("ComClient", <<ids, port>>, ComClient(client, ids, port))

\* client.connect()
Call_connect ==
    /\ client.constructed
    /\ \E comports \in SUBSET Devices : \E port_opens \in BOOLEAN :
       \E startup \in StartupMessages :
           FinishClient("connect", <<comports, port_opens, startup>>,
                        connect(client, comports, port_opens, startup))

\* client.close()
Call_close ==
    /\ client.constructed
    /\ FinishClient("close", <<>>, close(client))

\* client.receive()
Call_receive ==
    /\ client.constructed
    /\ \E reply \in Replies :
           /\ call' = [op |-> "receive", args |-> <<reply>>]
           /\ ret' = receive(client, reply)
    /\ UNCHANGED <<runVars, deviceVars>>

SpecCom == Init /\ [][Call_ComClient \/ Call_connect \/ Call_close \/ Call_receive]_vars

Matches(c, comports) == {usb \in comports : usb.vid = c.ids[1] /\ usb.pid = c.ids[2]}

\* C26: connecting a client by USB ids configures a port only when exactly one
\* listed device matches vendor id and product id; no match raises
\* ClientNotAvailableError, several raise AmbiguousHardwareError, and in both
\* cases no port is configured or opened. A port name given at construction
\* takes precedence and the ids are never resolved.
C26_ResolveIds ==
    [][call'.op = "connect" =>
          IF client.port # "None"
          THEN /\ ~client'.resolved
               /\ client'.ser_port = client.port
          ELSE LET matches == Matches(client, call'.args[1])
               IN  /\ Cardinality(matches) = 0 => ret'.exc = "ClientNotAvailableError"
                   /\ Cardinality(matches) > 1 => ret'.exc = "AmbiguousHardwareError"
                   /\ Cardinality(matches) # 1 =>
                          /\ client'.ser_port = client.ser_port
                          /\ client'.is_open = client.is_open
                          /\ client'.connected = client.connected
                   /\ Cardinality(matches) = 1 =>
                          /\ \E usb \in matches : client'.ser_port = usb.device
                          /\ ret'.exc \notin {"ClientNotAvailableError",
                                             "AmbiguousHardwareError"}]_vars

C26_Witness ==
    /\ call.op = "connect"
    /\ client.port = "None"
    /\ Cardinality(Matches(client, call.args[1])) = 2
    /\ Cardinality(call.args[1]) = 3
    /\ ret.exc = "AmbiguousHardwareError"
    /\ ~client.is_open

SpecLive == Spec /\ WF_vars(Next)

\* C29: the path search terminates for every behaviour of the collision
\* oracle: a search that started ends, returning a path or raising; it calls
\* the oracle at most once per start-to-stop path of the graph, and never
\* submits a path the oracle has rejected before.
C29_SearchTerminates ==
    /\ (pc = "path_search") ~> (pc \in {"check_joint_velocities", "raised"})
    /\ [](path_calls <= Cardinality(StartStopPaths(graph)))
    /\ []((pc = "raised" /\ stages # <<>>
             /\ stages[Len(stages)] = "get_best_valid_path") =>
            exc \in {"NoValidPathFound", "CollisionViolation"})
    /\ [][path_calls' # path_calls => last_call'.arg \notin rejected]_vars

C29_Witness ==
    /\ pc = "check_joint_velocities"
    /\ Cardinality(rejected) = 3
    /\ pt_configurations \notin rejected
    /\ path_calls = 4

\* ---------------------------------------------------------------------------
\* The angles circular_move_poll passes to the intermediate-point function,
\* MelfaRobot.py lines 479-491, and the branch the function takes for each,
\* circle_util.py lines 113-141.
\* ---------------------------------------------------------------------------

\* The branch of get_intermediate_points for an angle in eighth turns.
IntermediateBranch(angle) ==
    IF Abs(angle) = 8 THEN "full circle"
    ELSE IF Abs(angle) = 4 THEN "half circle"
    ELSE IF 4 > Abs(angle) /\ Abs(angle) > 0 THEN "center + cm_rescaled"
    ELSE IF 4 < Abs(angle) /\ Abs(angle) < 8 THEN "center - cm_rescaled"
    ELSE "NotImplementedError"

\* Lines 479-491: the angle of the arc is passed on when it is at least pi;
\* for a full circle the angle from the start to the first intermediate point
\* im_pos is passed on as well.
IntermediatePointAngles(start_pos, target_pos, center_pos, is_clockwise, im_pos) ==
    LET angle == get_directed_angle(start_pos, target_pos, center_pos, is_clockwise)
    IN  IF Abs(angle) >= 4
        THEN IF Abs(angle) = 8
             THEN <<angle, get_directed_angle(start_pos, im_pos, center_pos, is_clockwise)>>
             ELSE <<angle>>
        ELSE <<>>

\* circular_move_poll(target_pos, center_pos, is_clockwise, start_pos=start_pos);
\* the first intermediate point is any point of the plane.
Call_circular_move_poll_angles ==
    /\ call.op = "none"
    /\ \E t \in ArcInputs : \E is_clockwise \in BOOLEAN :
       \E im_pos \in {p \in PlanePoints : OnEighth(VecSub(p, t[3]))} :
           LET angles == IntermediatePointAngles(t[1], t[2], t[3], is_clockwise, im_pos)
           IN  /\ call' = [op |-> "circular_move_poll",
                           args |-> <<t[1], t[2], t[3], is_clockwise, im_pos>>]
               /\ ret' = Return([angles |-> angles,
                                 branches |-> [i \in 1..Len(angles) |->
                                                  IntermediateBranch(angles[i])]])
    /\ UNCHANGED <<runVars, deviceVars>>

SpecArc == Init /\ [][Call_circular_move_poll_angles]_vars

\* C30: every angle circular_move_poll passes to the intermediate-point
\* function is non-zero and of magnitude at most 2 * pi, so each call takes
\* the full-circle, the half-circle or one of the two rescaling branches and
\* never the NotImplementedError branch.
C30_NotImplementedUnreachable ==
    call.op = "circular_move_poll" =>
        \A i \in 1..Len(ret.val.angles) :
            /\ ret.val.angles[i] # 0
            /\ Abs(ret.val.angles[i]) <= 8
            /\ ret.val.branches[i] \in {"full circle", "half circle",
                                        "center + cm_rescaled", "center - cm_rescaled"}

C30_Witness ==
    /\ call.op = "circular_move_poll"
    /\ Len(ret.val.angles) = 2
    /\ ret.val.branches = <<"full circle", "center - cm_rescaled">>

\* C32: the safe_return argument of shutdown decides about the safe position:
\* a shutdown that returns normally has called go_safe_pos exactly when its
\* argument was true.
C32_ArgumentDecides ==
    (call.op = "shutdown" /\ ret.exc = "none") =>
        (robot.go_safe_pos_calls = 1 <=> call.args[1])

\* The command names of a sequence of sent commands.
Names(s) == [i \in DOMAIN s |-> s[i].cmd]

\* Every b of the sequence comes after an a and is followed by no a.
Precedes(s, a, b) ==
    \A j \in DOMAIN s :
        s[j].cmd = b => /\ \E i \in 1..(j - 1) : s[i].cmd = a
                        /\ \A i \in j..Len(s) : s[i].cmd # a

\* C36: boot and shutdown keep a fixed order. boot: communication and control
\* come up before the speed check, the servos go on after it, the safe
\* position is approached between the deactivation and the activation of the
\* work coordinates, and the activation is the last command, so that a boot
\* that returns normally leaves the three flags true. shutdown: the
\* deactivation of the work coordinates comes first, servo off before the
\* release of control, and the TCP client is closed only after the release.
C36_FixedOrder ==
    LET s == tcp.sent
    IN  /\ call.op = "boot" =>
            /\ Precedes(s, "COM_OPEN", "CNTL_ON")
            /\ Precedes(s, "CNTL_ON", "MVS_SPEED")
            /\ Precedes(s, "MVS_SPEED", "OVERRIDE_CMD")
            /\ Precedes(s, "OVERRIDE_CMD", "SRV_ON")
            /\ Precedes(s, "OVERRIDE_CMD=", "SRV_ON") \/ ~\E i \in DOMAIN s : s[i].cmd = "OVERRIDE_CMD="
            /\ Precedes(s, "SRV_ON", "RESET_BASE_COORDINATES")
            /\ Precedes(s, "RESET_BASE_COORDINATES", "MOVE_SAFE_POSITION")
            /\ Precedes(s, "RESET_BASE_COORDINATES", "SET_BASE_COORDINATES")
            /\ \A i \in DOMAIN s : s[i].cmd = "SET_BASE_COORDINATES" => i = Len(s)
            /\ \A i \in DOMAIN s : s[i].cmd = "MOVE_SAFE_POSITION" =>
                   /\ robot.safe_return
                   /\ ~robot.work_coordinate_active \/ ret.exc = "none"
            /\ ret.exc = "none" =>
                   /\ robot.com_ctrl /\ robot.servo /\ robot.work_coordinate_active
                   /\ s[Len(s)].cmd = "SET_BASE_COORDINATES"
                   /\ robot.safe_return => \E i \in DOMAIN s : s[i].cmd = "MOVE_SAFE_POSITION"
        /\ call.op = "shutdown" =>
            /\ s # <<>> /\ s[1].cmd = "RESET_BASE_COORDINATES"
            /\ Precedes(s, "RESET_BASE_COORDINATES", "SRV_OFF")
            /\ Precedes(s, "SRV_OFF", "CNTL_OFF")
            /\ Precedes(s, "CNTL_OFF", "COM_CLOSE")
            /\ tcp.close_calls = 1 =>
                   /\ s[Len(s)].cmd = "COM_CLOSE"
                   /\ ~robot.servo /\ ~robot.com_ctrl

C36_Witness ==
    /\ call.op = "boot" /\ ret.exc = "none" /\ robot.safe_return
    /\ \E i \in DOMAIN tcp.sent : tcp.sent[i].cmd = "OVERRIDE_CMD="

\* Values of speed_threshold given to the constructor: the default, values
\* inside [1, 100] and the two nearest values outside.
Thresholds == {0, 5, 10, 100, 101}

\* MelfaRobot(tcp_client, speed_threshold=speed_threshold,
\* safe_return=safe_return).boot() against a controller that reports the
\* override factor override and fails on the commands of faults.
Call_boot_threshold ==
    /\ ~robot.constructed
    /\ \E speed_threshold \in Thresholds : \E safe_return \in BOOLEAN :
       \E override \in Overrides : \E faults \in FaultSets(BootCommands) :
           Finish("MelfaRobot.boot", <<speed_threshold, override, faults>>,
                  boot(Entry([robot EXCEPT !.constructed = TRUE,
                                           !.safe_return = safe_return]),
                       speed_threshold, override, faults))

SpecBoot == Init /\ [][Call_boot_threshold]_vars

\* The override factor of the controller when the command at position i is
\* sent: the last factor set before it, else the factor reported.
OverrideAt(s, i, override) ==
    LET sets == {j \in 1..(i - 1) : s[j].cmd = "OVERRIDE_CMD="}
    IN  IF sets = {} THEN override
        ELSE s[CHOOSE j \in sets : \A k \in sets : k <= j].val

\* C37: boot never switches the servos on while the override factor exceeds
\* the speed threshold: whenever SRVON is sent, the factor is at most the
\* threshold, either as reported or because it was set to the threshold, a
\* value in [1, 100]; where it cannot be lowered (threshold outside [1, 100],
\* or the controller refuses the command) boot raises MelfaBaseException and
\* SRVON is not sent.
C37_SpeedThreshold ==
    call.op = "MelfaRobot.boot" =>
        LET speed_threshold == call.args[1]
            override == call.args[2]
            faults == call.args[3]
            s == tcp.sent
        IN  /\ \A i \in DOMAIN s :
                   /\ s[i].cmd = "SRV_ON" => OverrideAt(s, i, override) <= speed_threshold
                   /\ s[i].cmd = "OVERRIDE_CMD=" =>
                          /\ override > speed_threshold
                          /\ s[i].val = speed_threshold
                          /\ 1 <= s[i].val /\ s[i].val <= 100
            /\ ( /\ override > speed_threshold
                 /\ {"COM_OPEN", "OVERRIDE_CMD"} \cap faults = {}
                 /\ \/ speed_threshold < 1 \/ speed_threshold > 100
                    \/ "OVERRIDE_CMD=" \in faults )
               => /\ ret = Raise("MelfaBaseException")
                  /\ \A i \in DOMAIN s : s[i].cmd # "SRV_ON"
                  /\ ~robot.servo
            /\ ret.exc = "none" => /\ robot.servo
                                   /\ \E i \in DOMAIN s : s[i].cmd = "SRV_ON"

C37_Witness ==
    /\ call.op = "MelfaRobot.boot" /\ ret.exc = "none"
    /\ call.args[2] > call.args[1]
    /\ \E i \in DOMAIN tcp.sent : tcp.sent[i].cmd = "SRV_ON"

\* Points of up to MaxPointLen coordinates and boundary lists of up to one
\* entry more than twice as many, over three values.
BoundaryValues == {0, 1, 2}

\* is_point_within_boundaries(point, boundaries)
Call_is_point_within_boundaries ==
    /\ call.op = "none"
    /\ \E point \in SeqsOf(BoundaryValues, 0, MaxPointLen) :
       \E boundaries \in SeqsOf(BoundaryValues, 0, 2 * MaxPointLen + 1) :
           /\ call' = [op |-> "is_point_within_boundaries", args |-> <<point, boundaries>>]
           /\ ret' = is_point_within_boundaries(point, boundaries)
    /\ UNCHANGED <<runVars, deviceVars>>

SpecPoint == Init /\ [][Call_is_point_within_boundaries]_vars

\* C34: is_point_within_boundaries raises ValueError when the boundary list
\* has an odd length or more than twice as many entries as the point has
\* coordinates; otherwise it returns true exactly when every coordinate that
\* has a pair lies between its lower and its upper boundary, both included.
\* Coordinates without a pair are not constrained, and the empty boundary
\* list accepts every point.
C34_PointWithinBoundaries ==
    call.op = "is_point_within_boundaries" =>
        LET point == call.args[1]
            boundaries == call.args[2]
            pairs == Len(boundaries) \div 2
        IN  /\ (Len(boundaries) % 2 = 1 \/ Len(boundaries) > 2 * Len(point))
                   <=> ret = Raise("ValueError")
            /\ ret.exc = "none" =>
                   /\ pairs <= Len(point)
                   /\ ret.val <=> \A k \in 1..pairs :
                                      /\ boundaries[2 * k - 1] <= point[k]
                                      /\ point[k] <= boundaries[2 * k]
            /\ boundaries = <<>> => ret = Return(TRUE)

C34_Witness ==
    /\ call.op = "is_point_within_boundaries"
    /\ Len(call.args[1]) = 2 /\ Len(call.args[2]) = 2
    /\ call.args[1][2] > call.args[2][2]
    /\ ret = Return(TRUE)

\* ---------------------------------------------------------------------------
\* The move operations of src/src/printer_components/MelfaRobot.py on the
\* robot and its TCP client: the commands sent, the order of send and
\* receive, and the stored zero of the work coordinates. The coordinates are
\* passed by reference, and update_empty fills the object it is called on.
\* ---------------------------------------------------------------------------

\* get_pos, lines 552-563: the exchange; the position read is an input.
get_pos(m, faults) == Exchange(m, Cmd("CURRENT_XYZABC", ""), faults)

\* One send/receive pair for each command of a sequence (the loop of
\* set_global_positions, lines 541-546, and the move command after it).
RECURSIVE ExchangeAll(_, _, _)
ExchangeAll(m, cmds, faults) ==
    IF cmds = <<>> THEN m
    ELSE ExchangeAll(Exchange(m, Head(cmds), faults), Tail(cmds), faults)

\* linear_move_poll (speed None), lines 405-445, on the TCP client.
linear_move_poll_tcp(m, target_pos, current_pos, robot_pos, faults) ==
    IF m.exc # "none" \/ ~AnySet(target_pos) THEN m
    ELSE LET read == IF current_pos.given THEN m ELSE get_pos(m, faults)
             moved == ExchangeAll(read,
                                  linear_move_poll(target_pos, current_pos, robot_pos).val,
                                  faults)
         IN  cmp_response(moved, "CURRENT_XYZABC", faults)

\* circular_move_poll (speed None), lines 447-515, on the TCP client.
circular_move_poll_tcp(m, target_pos, center_pos, is_clockwise, start_pos, robot_pos, im, im2, faults) ==
    LET read == IF start_pos.given THEN m ELSE get_pos(m, faults)
        commands == circular_move_poll(target_pos, center_pos, is_clockwise, start_pos,
                                       robot_pos, im, im2)
    IN  IF read.exc # "none" THEN read
        ELSE IF commands.exc # "none" THEN RaiseIn(read, commands.exc)
        ELSE IF commands.val = <<>> THEN read
        ELSE cmp_response(ExchangeAll(read, commands.val, faults),
                          "CURRENT_XYZABC", faults)

\* Coordinate.reduce_to_axes(axes, make_none=True): the other axes are unset.
reduce_to_axes_make_none(c, axes) ==
    [a \in DOMAIN c |-> IF a \in axes THEN c[a] ELSE Unset]

\* Faulty variant: the move goes to the local copy of the zero.
go_home_mut_local_zero(m, option, robot_pos, faults) ==
    IF m.exc # "none" THEN m
    ELSE IF m.robot.work_coordinate_active
    THEN LET copy == m.robot.zero
             zero == IF option # {} THEN reduce_to_axes_make_none(copy, option) ELSE copy
             read == get_pos(m, faults)
         IN  linear_move_poll_tcp(read, update_empty(zero, robot_pos), NoneArg,
                                  robot_pos, faults)
    ELSE go_safe_pos(m, faults)

\* go_home, lines 366-385. option is the set of axes named; the local zero is
\* filled and dropped, and linear_move_poll gets self.zero, which line 427
\* fills in place once the position has been read.
go_home(m, option, robot_pos, faults) ==
    IF m.exc # "none" THEN m
    ELSE IF m.robot.work_coordinate_active
    THEN LET copy == m.robot.zero
             zero == IF option # {} THEN reduce_to_axes_make_none(copy, option) ELSE copy
             read == get_pos(m, faults)
             moved == linear_move_poll_tcp(read, read.robot.zero, NoneArg, robot_pos,
                                           faults)
         IN  IF read.exc = "none" /\ AnySet(read.robot.zero)
             THEN [moved EXCEPT !.robot.zero = update_empty(@, robot_pos)]
             ELSE moved
    ELSE go_safe_pos(m, faults)

\* handle_gcode, interactive, for the movement codes and G28 (lines 145-225;
\* millimetres, no speed).
handle_gcode_tcp(m, gcode, absolute_coordinates, robot_pos, im, im2, faults) ==
    LET read == get_pos(m, faults)
        current_pos == reduce_to_axes(robot_pos, TranslationAxes)
    IN  IF gcode.id = "G28" THEN go_home(read, gcode.home_opt, robot_pos, faults)
        ELSE LET target == IF absolute_coordinates THEN gcode.cartesian_abs
                           ELSE CoordAdd(gcode.cartesian_abs, current_pos)
                 center == CoordAdd(current_pos, gcode.cartesian_rel)
             IN  IF gcode.id = "G1"
                 THEN linear_move_poll_tcp(read, target, Given(current_pos), robot_pos,
                                           faults)
                 ELSE IF gcode.id = "G2"
                 THEN circular_move_poll_tcp(read, target, center, TRUE,
                                             Given(current_pos), robot_pos, im, im2, faults)
                 ELSE circular_move_poll_tcp(read, target, center, FALSE, NoneArg,
                                             robot_pos, im, im2, faults)

\* circular_move_poll of the class in src/src/MelfaRobot.py, lines 162-184:
\* the move command is sent and not answered before cmp_response polls.
MelfaRobot_circular_move_poll(m, faults) ==
    cmp_response(Send(m, Cmd("CIRCULAR_INTRP", "")), "CURRENT_XYZABC", faults)

\* Positions the controller reports, targets, centres and homing options.
MotionPositions ==
    {[X |-> <<1>>, Y |-> <<1>>, A |-> <<0>>], [X |-> <<1>>, Y |-> <<1>>, A |-> <<1>>],
     [X |-> <<0>>, Y |-> <<0>>, A |-> <<0>>]}

MotionTargets ==
    {[X |-> Unset, Y |-> Unset, A |-> Unset], [X |-> <<1>>, Y |-> Unset, A |-> Unset],
     [X |-> <<1>>, Y |-> <<1>>, A |-> Unset], [X |-> <<0>>, Y |-> <<1>>, A |-> <<1>>],
     [X |-> <<0>>, Y |-> <<0>>, A |-> <<0>>]}

MotionCenters ==
    {[X |-> <<0>>, Y |-> <<1>>, A |-> Unset], [X |-> <<1>>, Y |-> <<0>>, A |-> Unset],
     [X |-> Unset, Y |-> <<0>>, A |-> Unset]}

MotionIntermediate ==
    {[X |-> <<0>>, Y |-> <<0>>, A |-> Unset], [X |-> <<1>>, Y |-> <<0>>, A |-> Unset]}

HomeOptions == {{}, {"X"}, {"Y"}, {"X", "Y"}}

MotionCodes ==
    [id : {"G1", "G2", "G3"},
     cartesian_abs : {[X |-> Unset, Y |-> Unset], [X |-> <<1>>, Y |-> Unset],
                      [X |-> <<1>>, Y |-> <<1>>]},
     cartesian_rel : {[X |-> <<0>>, Y |-> <<1>>], [X |-> Unset, Y |-> <<0>>]}]
    \cup [id : {"G28"}, home_opt : HomeOptions]

MotionCommands == {"CURRENT_XYZABC", "MVS"}

\* robot.go_home(option)
Call_go_home ==
    /\ robot.constructed
    /\ \E option \in HomeOptions : \E robot_pos \in MotionPositions :
       \E faults \in FaultSets(MotionCommands) :
           Finish("go_home", <<option, robot_pos>>,
                  go_home(Entry(robot), option, robot_pos, faults))

\* robot.linear_move_poll(target_pos)
Call_linear_move_poll_tcp ==
    /\ robot.constructed
    /\ \E target_pos \in MotionTargets : \E robot_pos \in MotionPositions :
           Finish("linear_move_poll", <<target_pos, robot_pos>>,
                  linear_move_poll_tcp(Entry(robot), target_pos, NoneArg, robot_pos, {}))

\* robot.circular_move_poll(target_pos, center_pos, is_clockwise), with and
\* without start_pos.
Call_circular_move_poll_tcp ==
    /\ robot.constructed
    /\ \E target_pos \in MotionTargets : \E center_pos \in MotionCenters :
       \E is_clockwise \in BOOLEAN : \E robot_pos \in MotionPositions :
       \E given \in BOOLEAN : \E im \in MotionIntermediate :
       \E im2 \in MotionIntermediate :
           LET start_pos == IF given THEN Given(robot_pos) ELSE NoneArg
           IN  Finish("circular_move_poll",
                      <<target_pos, center_pos, is_clockwise, start_pos, robot_pos, im,
                        im2>>,
                      circular_move_poll_tcp(Entry(robot), target_pos, center_pos,
                                             is_clockwise, start_pos, robot_pos, im, im2,
                                             {}))

\* robot.handle_gcode(gcode) in absolute or relative mode.
Call_handle_gcode_tcp ==
    /\ robot.constructed
    /\ \E gcode \in MotionCodes : \E absolute_coordinates \in BOOLEAN :
       \E robot_pos \in MotionPositions :
           LET im == [X |-> <<0>>, Y |-> <<0>>, A |-> Unset]
           IN  Finish("handle_gcode", <<gcode, absolute_coordinates, robot_pos>>,
                      handle_gcode_tcp(Entry(robot), gcode, absolute_coordinates,
                                       robot_pos, im, im, {}))

\* circular_move_poll of the class in src/src/MelfaRobot.py.
Call_MelfaRobot_circular_move_poll ==
    /\ robot.constructed
    /\ Finish("MelfaRobot.circular_move_poll", <<>>,
              MelfaRobot_circular_move_poll(Entry(robot), {}))

SpecMotion ==
    Init /\ [][Call_MelfaRobot \/ Call_activate_work_coordinate \/ Call_go_home
               \/ Call_linear_move_poll_tcp \/ Call_handle_gcode_tcp
               \/ Call_MelfaRobot_circular_move_poll]_vars

SpecCircular == Init /\ [][Call_MelfaRobot \/ Call_circular_move_poll_tcp]_vars

\* C40: the stored zero of the work coordinates (X, Y, Z = 0, rotations
\* unset) is after any sequence of go_home, linear_move_poll and handle_gcode
\* calls what it was after construction.
C40_ZeroUnchanged == robot.zero = Zero

\* C40 is violated by go_home with active work coordinates, which fills the
\* rotation of the stored zero from the current position.

\* A coordinate of the model as a vector of the XY plane.
PlaneVector(c) == <<c["X"][1], c["Y"][1], 0>>

\* The commands of an operation after the position query of get_pos, if the
\* operation began with one.
AfterQuery(s, queried) == IF queried /\ s # <<>> THEN Tail(s) ELSE s

C33_GoHome ==
    (call.op = "go_home" /\ ret.exc = "none") =>
        LET option == call.args[1]
            robot_pos == call.args[2]
            moves == {i \in DOMAIN tcp.sent : tcp.sent[i].cmd = "MVS"}
        IN  IF ~robot.work_coordinate_active
            THEN robot.go_safe_pos_calls = 1 /\ moves = {}
            ELSE /\ robot.go_safe_pos_calls = 0
                 /\ Cardinality(moves) = 1
                 /\ \A i \in moves :
                        tcp.sent[i].point =
                            [a \in AllAxes |->
                                IF a \in TranslationAxes /\ (option = {} \/ a \in option)
                                THEN <<0>> ELSE robot_pos[a]]

\* C38: requests and responses alternate strictly on the TCP client: every
\* send is followed by a receive before the next send.
C38_Alternate ==
    \A i \in DOMAIN tcp.wire : tcp.wire[i] = (IF i % 2 = 1 THEN "send" ELSE "receive")

\* ---------------------------------------------------------------------------
\* ComClient._receive of src/src/clients/ComClient.py, lines 166-208: the
\* loop that reads the serial port into self.buffer until a terminator is
\* found or no new byte has arrived for MAX_TIME_WITHOUT_NEW_BIT. A byte is
\* a string of one character, a byte string a sequence of bytes, and time is
\* counted in ticks since t0.
\* ---------------------------------------------------------------------------

\* Most bytes the serial port delivers in one run of the client.
MaxRead == 4

\* MAX_TIME_WITHOUT_NEW_BIT, line 29, in ticks of 2.5 seconds.
MAX_TIME_WITHOUT_NEW_BIT == 2

\* terminators, line 175.
terminators ==
    <<
     <<"o", "k", "\n">>,
     <<"/", "/", "a", "c", "t", "i", "o", "n", ":", "d", "i", "s", "c", "o", "n", "n",
      "e", "c", "t", "\n">>,
     <<"a", "c", "t", "i", "o", "n", ":", "d", "i", "s", "c", "o", "n", "n", "e", "c",
      "t", "\n">>,
     <<"T", "h", "e", "r", "m", "a", "l", " ", "R", "u", "n", "a", "w", "a", "y", " ",
      "P", "r", "o", "t", "e", "c", "t", "i", "o", "n", " ", "R", "e", "s", "e", "t",
      "\n">>>>

\* Bytes the device sends, and what one read_all returns.
Bytes == {"o", "k", "\n"}

Chunks == SeqsOf(Bytes, 0, 2)

\* buffer[:k] and buffer[k:] for k >= 0.
Upto(buffer, k) == SubSeq(buffer, 1, IF k < Len(buffer) THEN k ELSE Len(buffer))

From(buffer, k) == SubSeq(buffer, (IF k < Len(buffer) THEN k ELSE Len(buffer)) + 1, Len(buffer))

\* buffer.find(term): the lowest index (from 0) at which term begins, or -1.
find(buffer, term) ==
    LET at == {i \in 0..(Len(buffer) - Len(term)) :
                  SubSeq(buffer, i + 1, i + Len(term)) = term}
    IN  IF at = {} THEN -1 ELSE CHOOSE i \in at : \A j \in at : i <= j

\* One pass of the for loop, lines 194-199.
check_terminator(s, term) ==
    LET idx == find(s.buffer, term)
    IN  IF idx > -1
        THEN [buffer |-> From(s.buffer, idx + 2),
              response |-> Upto(s.buffer, idx + 1 + Len(term)),
              got_terminator |-> TRUE]
        ELSE s

\* The for loop over the terminators, lines 194-199; it has no break.
RECURSIVE check_terminators(_, _)
check_terminators(s, terms) ==
    IF terms = <<>> THEN s
    ELSE check_terminators(check_terminator(s, Head(terms)), Tail(terms))

\* Faulty variant: the timeout never fires.
timed_out_mut_never(idle) == FALSE

\* time() - t0 > self.MAX_TIME_WITHOUT_NEW_BIT, line 202.
timed_out(idle) == idle > MAX_TIME_WITHOUT_NEW_BIT

\* self._receive() is called (lines 171-178): t0 = time() and initial_bits.
Call__receive ==
    /\ ~rx.active
    /\ rx' = [rx EXCEPT !.active = TRUE, !.iterated = FALSE, !.idle = 0,
                        !.initial_bits = Len(client.buffer), !.erred = FALSE,
                        !.cause = "none", !.response = <<>>, !.buffered = <<>>]
    /\ call' = [op |-> "_receive", args |-> <<>>]
    /\ ret' = Return(<<>>)
    /\ UNCHANGED <<runVars, robot, tcp, client>>

\* Time passes while the loop runs.
Tick ==
    /\ rx.active
    /\ rx.idle <= MAX_TIME_WITHOUT_NEW_BIT
    /\ rx' = [rx EXCEPT !.idle = @ + 1]
    /\ UNCHANGED <<runVars, callVars, robot, tcp, client>>

\* One iteration of the while loop, lines 181-206. read_all returns a chunk
\* (possibly empty) or raises SerialException, which is logged.
Receive_iteration ==
    /\ rx.active
    /\ \E raised \in BOOLEAN :
       \E chunk \in {c \in Chunks : Len(rx.read) + Len(c) <= MaxRead /\ (raised => c = <<>>)} :
           LET restart == Len(client.buffer) # rx.initial_bits
               idle == IF restart THEN 0 ELSE rx.idle
               buffer == client.buffer \o chunk
               checked == check_terminators([buffer |-> buffer, response |-> rx.response,
                                             got_terminator |-> FALSE],
                                            terminators)
               timeout == timed_out(idle)
               response == IF timeout THEN checked.buffer ELSE checked.response
               returns == checked.got_terminator \/ timeout
           IN  /\ client' = [client EXCEPT !.buffer = IF timeout THEN <<>>
                                                      ELSE checked.buffer]
               /\ rx' = [rx EXCEPT
                             !.active = ~returns,
                             !.iterated = TRUE,
                             !.idle = idle,
                             !.initial_bits = IF restart THEN Len(client.buffer) ELSE @,
                             !.erred = @ \/ raised,
                             !.cause = IF checked.got_terminator /\ timeout THEN "both"
                                       ELSE IF checked.got_terminator THEN "terminator"
                                       ELSE IF timeout THEN "timeout" ELSE "none",
                             !.response = response,
                             !.buffered = buffer,
                             !.read = @ \o chunk,
                             !.delivered = IF returns THEN @ \o response ELSE @]
               /\ ret' = IF returns THEN Return(response) ELSE ret
    /\ UNCHANGED <<runVars, call, robot, tcp>>

SpecReceive == Init /\ [][Call__receive \/ Tick \/ Receive_iteration]_vars

SpecReceiveLive == SpecReceive /\ WF_vars(Tick) /\ WF_vars(Receive_iteration)

\* C39: across any sequence of _receive calls no byte is lost and none is
\* delivered twice: the responses returned so far, followed by the buffer,
\* are the bytes read so far, in order; a response that ends a call on a
\* terminator is the buffered bytes up to and including the terminator.
C39_NoByteLost ==
    /\ ~rx.active => rx.delivered \o client.buffer = rx.read
    /\ rx.cause = "terminator" =>
           /\ rx.response \o client.buffer = rx.buffered
           /\ \E i \in 1..Len(terminators) :
                  LET term == terminators[i]
                  IN  /\ Len(rx.response) >= Len(term)
                      /\ From(rx.response, Len(rx.response) - Len(term)) = term

\* No terminator begins in the byte string.
NoTerminator(buffer) == \A i \in 1..Len(terminators) : find(buffer, terminators[i]) = -1

====
